---- MODULE Spec2Model ----
(***************************************************************************)
(* puzzle_bot: the puzzle selection and state-tracking service             *)
(* (service.py), the catalog store (db.py) and the request handlers of     *)
(* bot.py that call them, over one shared SQLite store.                    *)
(*                                                                         *)
(* A nullable column or an Optional argument is a sequence of length at    *)
(* most one: NULL is the empty sequence and Some(v) holds the value v.     *)
(***************************************************************************)
EXTENDS Integers, Sequences, FiniteSets, TLC

\* ---------------------------------------------------------------- bounds
\* Largest number of rows of the puzzles table when the store is opened.
MaxPuzzles == 2
\* Number of messages the chat platform sends for the bot in a behaviour.
MaxMessages == 2
\* Last second of the store's clock in a behaviour.
MaxClock == 1
\* Number of rounds of the sequential /puzzle session of SessionSpec.
MaxRounds == 4
\* time.monotonic() when the store's clock reads 0.
BootOffset == 1

\* ------------------------------------------------------ program constants
\* post_command: seconds between two posts of one user.
PostCooldown == 60
\* _trim_post_cooldowns: max_age.
CooldownMaxAge == 3600

\* ---------------------------------------------------------------- values
NULL == <<>>
Some(v) == <<v>>
Nullable(S) == {NULL} \cup {Some(v) : v \in S}

Users == {"u1", "u2"}
Tasks == {1, 2}
PuzzleIds == 1..MaxPuzzles
\* The plys stored in puzzle rows and given as ply bounds.
Plys == {0, 1}
MessageIds == 1..MaxMessages
\* The values update_like is called with: the two polarities, None, and
\* integers that are no polarity.
LikeArgs == Nullable({-1, 0, 1, 2})
Polarities == {Some(1), Some(-1)}
\* Identity strings of the puzzles present when the store is opened.
UhpPool == <<"Base;wS1", "Base;wS1;bS1", "Base;wQ", "Base;wA1", "Base;wG1">>

\* str(message.id): the TEXT value stored in a message_id column.
ToText(n) == <<"text", n>>

VARIABLES
    puzzles,          \* table puzzles: a set of rows
    puzzle_seq,       \* sqlite_sequence of puzzles (AUTOINCREMENT)
    user_puzzles,     \* table user_puzzles: a set of rows
    message_puzzles,  \* table message_puzzles: a set of rows
    clock,            \* CURRENT_TIMESTAMP of the store, in seconds
    next_message,     \* the id the chat platform gives the next message
    post_cooldowns,   \* PuzzleBot._post_cooldowns
    tasks,            \* the request handlers in flight, and where each stands
    last,             \* the service call made by the latest step, and its result
    session,          \* SessionSpec only: the selections of each user's session
    tx,               \* the connection's open transaction: the tables as they
                      \* were when it began, or NULL when none is open
    reactions         \* the reactions of the users on the messages, as the
                      \* chat platform holds them: <<user, message, emoji>>

vars == <<puzzles, puzzle_seq, user_puzzles, message_puzzles, clock,
          next_message, post_cooldowns, tasks, last, session, tx,
          reactions>>

\* ------------------------------------------------------------ SQL values
\* A comparison with NULL is unknown (NULL), as in SQL's three-valued logic.
SqlGe(a, b) == IF a = NULL \/ b = NULL THEN NULL ELSE Some(a[1] >= b[1])
SqlLe(a, b) == IF a = NULL \/ b = NULL THEN NULL ELSE Some(a[1] <= b[1])
SqlIsNotNull(a) == Some(a # NULL)
\* A WHERE clause keeps a row when every AND-ed condition is true; a
\* condition that is false or unknown drops it.
SqlWhere(conds) == \A i \in 1..Len(conds) : conds[i] = Some(TRUE)

\* ------------------------------------------------- select_puzzle_for_user
\* The conditions that ply_clause adds to each of the three queries.
PlyClause(ply, min_ply, max_ply) ==
    (IF min_ply # NULL THEN <<SqlGe(ply, min_ply)>> ELSE <<>>)
      \o (IF max_ply # NULL THEN <<SqlLe(ply, max_ply)>> ELSE <<>>)
      \o (IF min_ply # NULL THEN <<SqlIsNotNull(ply)>> ELSE <<>>)

\* query_unseen with the subquery uncorrelated to the user: a row of any
\* user hides the puzzle.
QueryUnseenOfAnyUser(user_id, min_ply, max_ply) ==
    {p \in puzzles :
        /\ ~ \E up \in user_puzzles : up.puzzle_id = p.id
        /\ SqlWhere(PlyClause(p.ply, min_ply, max_ply))}

\* query_unseen without LIMIT: puzzles with no user_puzzles row of the user.
QueryUnseen(user_id, min_ply, max_ply) ==
    {p \in puzzles :
        /\ ~ \E up \in user_puzzles :
                up.user_id = user_id /\ up.puzzle_id = p.id
        /\ SqlWhere(PlyClause(p.ply, min_ply, max_ply))}

\* query_unsolved without LIMIT: the join of puzzles with the user's rows
\* whose solved_at is NULL.
QueryUnsolved(user_id, min_ply, max_ply) ==
    {p \in puzzles :
        /\ \E up \in user_puzzles :
                /\ up.puzzle_id = p.id
                /\ up.user_id = user_id
                /\ up.solved_at = NULL
        /\ SqlWhere(PlyClause(p.ply, min_ply, max_ply))}

\* query_any without LIMIT.
QueryAny(min_ply, max_ply) ==
    {p \in puzzles : SqlWhere(PlyClause(p.ply, min_ply, max_ply))}

NoSelection == [status |-> "none", puzzle |-> 0]
Selected(status, rows) == {[status |-> status, puzzle |-> p.id] : p \in rows}

\* The results select_puzzle_for_user can return: ORDER BY RANDOM() LIMIT 1
\* returns any one row of the first non-empty query.
select_puzzle_for_user(user_id, min_ply, max_ply) ==
    LET unseen == QueryUnseen(user_id, min_ply, max_ply)
        unsolved == QueryUnsolved(user_id, min_ply, max_ply)
        any == QueryAny(min_ply, max_ply)
    IN  IF unseen # {} THEN Selected("new", unseen)
        ELSE IF unsolved # {} THEN Selected("unsolved", unsolved)
        ELSE IF any # {} THEN Selected("all_solved", any)
        ELSE {NoSelection}

\* ------------------------------------------------------------ the tables
\* A row of user_puzzles as INSERT creates it: solved_at and liked default
\* to NULL.
NewUserPuzzle(user_id, puzzle_id, message_id, now) ==
    [user_id |-> user_id, puzzle_id |-> puzzle_id, attempted_at |-> now,
     solved_at |-> NULL, liked |-> NULL, message_id |-> message_id]

\* FOREIGN KEY (puzzle_id) REFERENCES puzzles(id), with foreign_keys=ON.
ForeignKeyOk(puzzle_id) == \E p \in puzzles : p.id = puzzle_id

\* INSERT OR REPLACE INTO user_puzzles: a row in conflict is deleted and the
\* new row takes the column defaults.
UpsertReplacingRow(table, user_id, puzzle_id, message_id, now) ==
    {up \in table : ~ (up.user_id = user_id /\ up.puzzle_id = puzzle_id)}
        \cup {NewUserPuzzle(user_id, puzzle_id, message_id, now)}

\* INSERT INTO user_puzzles on a table without the primary key: every
\* delivery adds a row.
UpsertWithoutKey(table, user_id, puzzle_id, message_id, now) ==
    table \cup {NewUserPuzzle(user_id, puzzle_id, message_id, now)}

\* INSERT INTO user_puzzles ... ON CONFLICT(user_id, puzzle_id) DO UPDATE
\* SET attempted_at = CURRENT_TIMESTAMP, message_id = excluded.message_id.
UpsertUserPuzzle(table, user_id, puzzle_id, message_id, now) ==
    IF \E up \in table : up.user_id = user_id /\ up.puzzle_id = puzzle_id
    THEN {IF up.user_id = user_id /\ up.puzzle_id = puzzle_id
          THEN [up EXCEPT !.attempted_at = now, !.message_id = message_id]
          ELSE up : up \in table}
    ELSE table \cup {NewUserPuzzle(user_id, puzzle_id, message_id, now)}

\* record_message_for_user that writes nothing.
RecordNothing(table, user_id, puzzle_id, message_id, now) == table

\* record_message_for_user on a connection without PRAGMA foreign_keys=ON.
RecordWithoutForeignKeys(table, user_id, puzzle_id, message_id, now) ==
    UpsertUserPuzzle(table, user_id, puzzle_id, message_id, now)

\* record_message_for_user: the statement raises IntegrityError, and the
\* table is as before, when puzzle_id references no puzzle.
record_message_for_user(table, user_id, puzzle_id, message_id, now) ==
    IF ForeignKeyOk(puzzle_id)
    THEN UpsertUserPuzzle(table, user_id, puzzle_id, message_id, now)
    ELSE table

\* lookup_puzzle_by_message without `AND up.message_id = ?`: the puzzles
\* joined to the user's rows.
LookupByUser(user_id, message_id) ==
    {p \in puzzles : \E up \in user_puzzles :
        up.user_id = user_id /\ up.puzzle_id = p.id}

\* lookup_puzzle_by_message: the puzzles joined to the user's rows with this
\* message_id (LIMIT 1 returns any one of them).
lookup_puzzle_by_message(user_id, message_id) ==
    {p \in puzzles : \E up \in user_puzzles :
        /\ p.id = up.puzzle_id
        /\ up.user_id = user_id
        /\ up.message_id = ToText(message_id)}

\* update_solved as a toggle: a true argument flips the solved status.
ToggleSolved(table, user_id, puzzle_id, solved, now) ==
    {IF up.user_id = user_id /\ up.puzzle_id = puzzle_id
     THEN [up EXCEPT !.solved_at = IF solved /\ @ = NULL THEN Some(now) ELSE NULL]
     ELSE up : up \in table}

\* update_solved: solved is passed as 1 or 0, and CASE WHEN ? is true for a
\* non-zero value.
update_solved(table, user_id, puzzle_id, solved, now) ==
    LET param == IF solved THEN 1 ELSE 0 IN
    {IF up.user_id = user_id /\ up.puzzle_id = puzzle_id
     THEN [up EXCEPT !.solved_at = IF param # 0 THEN Some(now) ELSE NULL]
     ELSE up : up \in table}

\* update_like without the normalisation: value = liked.
LikeValueUnchecked(liked) == liked

\* update_like: value = liked if liked in (1, -1) else None.
LikeValue(liked) == IF liked \in {Some(1), Some(-1)} THEN liked ELSE NULL

\* UPDATE user_puzzles SET liked = ? WHERE puzzle_id = ?: the rows of every
\* user for the puzzle.
UpdateLikeOfPuzzle(table, user_id, puzzle_id, liked) ==
    {IF up.puzzle_id = puzzle_id
     THEN [up EXCEPT !.liked = LikeValue(liked)]
     ELSE up : up \in table}

update_like(table, user_id, puzzle_id, liked) ==
    {IF up.user_id = user_id /\ up.puzzle_id = puzzle_id
     THEN [up EXCEPT !.liked = LikeValue(liked)]
     ELSE up : up \in table}

\* SUM(CASE WHEN cond THEN 1 ELSE 0 END) over rows, then `or 0`: the number
\* of rows with cond, and 0 when there is no row.
CountRows(rows) == Cardinality(rows)

\* vote_totals over the rows of `table` -> (likes, dislikes)
vote_totals(table, puzzle_id) ==
    <<CountRows({up \in table :
                    up.puzzle_id = puzzle_id /\ up.liked = Some(1)}),
      CountRows({up \in table :
                    up.puzzle_id = puzzle_id /\ up.liked = Some(-1)})>>

\* puzzle_totals over the rows of `table` -> (attempted, solved)
puzzle_totals(table, puzzle_id) ==
    <<CountRows({up \in table : up.puzzle_id = puzzle_id}),
      CountRows({up \in table :
                    up.puzzle_id = puzzle_id /\ up.solved_at # NULL})>>

\* user_puzzle_state: the user's row for the puzzle, or no row.
user_puzzle_state(table, user_id, puzzle_id) ==
    {up \in table : up.user_id = user_id /\ up.puzzle_id = puzzle_id}

\* user_stats after SELECT COUNT(*) FROM puzzles has given total_puzzles:
\* the aggregates over the user's rows, then unseen and unsolved.
UserSummary(total_puzzles, table, user_id) ==
    LET rows == {up \in table : up.user_id = user_id}
        attempted == CountRows(rows)
        solved == CountRows({up \in rows : up.solved_at # NULL})
    IN  [total |-> total_puzzles,
         attempted |-> attempted,
         solved |-> solved,
         liked |-> CountRows({up \in rows : up.liked = Some(1)}),
         disliked |-> CountRows({up \in rows : up.liked = Some(-1)}),
         unseen |-> IF total_puzzles - attempted > 0
                    THEN total_puzzles - attempted ELSE 0,
         unsolved |-> IF attempted - solved > 0 THEN attempted - solved ELSE 0]

\* update_puzzle_title: UPDATE puzzles SET title = ? WHERE id = ?
update_puzzle_title(table, puzzle_id, title) ==
    {IF p.id = puzzle_id THEN [p EXCEPT !.title = title] ELSE p : p \in table}

\* INSERT INTO message_puzzles ... ON CONFLICT(message_id) DO UPDATE SET
\* puzzle_id, channel_id, posted_by = excluded.*
record_message_mapping(table, puzzle_id, message_id, channel_id, posted_by) ==
    LET row == [message_id |-> message_id, puzzle_id |-> puzzle_id,
                channel_id |-> channel_id, posted_by |-> posted_by] IN
    IF ~ ForeignKeyOk(puzzle_id) THEN table
    ELSE {mp \in table : mp.message_id # message_id} \cup {row}

\* puzzle_for_message: the puzzles joined to the mapping of this message.
puzzle_for_message(message_id) ==
    {p \in puzzles : \E mp \in message_puzzles :
        p.id = mp.puzzle_id /\ mp.message_id = message_id}

\* ------------------------------------------------------------------ Init
\* A row of puzzles as upsert_puzzles inserts a PuzzleRecord.
PuzzleRow(id, uhp, ply) ==
    [id |-> id, uhp |-> uhp, solution |-> "wQ-bS1", ply |-> ply,
     title |-> NULL, author |-> "Mzinga", to_move |-> TRUE]

\* The catalogs the store can hold when open_db opens it: rows 1..n with
\* distinct uhp (UNIQUE) and a ply that is an integer or NULL.
Catalogs ==
    UNION {{{PuzzleRow(i, UhpPool[i], plys[i]) : i \in 1..n} :
                plys \in [1..n -> Nullable(Plys)]} : n \in 0..MaxPuzzles}

NoCall == [op |-> "none", user |-> "", puzzle |-> 0, message |-> 0,
           min_ply |-> NULL, max_ply |-> NULL, status |-> "",
           liked |-> NULL, solved |-> FALSE, prior |-> NULL,
           counts |-> <<0, 0>>, removed |-> <<0, 0>>,
           imported |-> 0, skipped |-> 0, inserted |-> 0,
           title |-> NULL, upload |-> <<>>, stats |-> NULL,
           text |-> <<>>, result |-> NULL, failures |-> <<>>,
           duplicate_lines |-> <<>>]

Idle == [pc |-> "idle", user |-> "", puzzle |-> 0, message |-> 0,
         emoji |-> "", added |-> FALSE, counts |-> <<0, 0>>, records |-> <<>>,
         before |-> 0, skipped |-> 0, inserted |-> 0,
         call |-> NoCall, began |-> NULL, text |-> <<>>, failures |-> <<>>,
         duplicate_lines |-> <<>>]

\* The catalogs that seed_if_empty leaves: every record comes from the
\* parser, which gives each an integer ply.
SeededCatalogs ==
    {{PuzzleRow(i, UhpPool[i], Some(1)) : i \in 1..n} : n \in 0..MaxPuzzles}

\* The state when the store with catalog `catalog` has been opened.
Opened(catalog) ==
    /\ puzzles = catalog
    /\ puzzle_seq = Cardinality(catalog)
    /\ user_puzzles = {}
    /\ message_puzzles = {}
    /\ clock = 0
    /\ next_message = 1
    /\ post_cooldowns = [u \in Users |-> NULL]
    /\ tasks = [t \in Tasks |-> Idle]
    /\ last = NoCall
    /\ session = [u \in Users |-> <<>>]
    /\ reactions = {}
    /\ tx = NULL

Init == \E catalog \in SeededCatalogs : Opened(catalog)

\* The store was filled before it is opened: a ply may be NULL.
SelectInit == \E catalog \in Catalogs : Opened(catalog)

\* A handler takes the first free slot of tasks.
FreeSlot(t) ==
    /\ tasks[t].pc = "idle"
    /\ \A t2 \in Tasks : t2 < t => tasks[t2].pc # "idle"

\* -------------------------------------------------- /puzzle and /show_me
SelectCall(user_id, min_ply, max_ply, result) ==
    [NoCall EXCEPT !.op = "select_puzzle_for_user", !.user = user_id,
                   !.min_ply = min_ply, !.max_ply = max_ply,
                   !.status = result.status, !.puzzle = result.puzzle]

RecordCall(user_id, puzzle_id, message) ==
    [NoCall EXCEPT !.op = "record_message_for_user", !.user = user_id,
                   !.puzzle = puzzle_id, !.message = message]

\* puzzle_command up to its call of _deliver_puzzle: without a selection
\* the handler answers that no puzzle is available and returns.
PuzzleSelect(t, user_id, min_ply, max_ply, result) ==
    /\ FreeSlot(t)
    /\ tasks' = [tasks EXCEPT ![t] =
            IF result.status = "none" THEN Idle
            ELSE [Idle EXCEPT !.pc = "deliver", !.user = user_id,
                              !.puzzle = result.puzzle]]
    /\ last' = SelectCall(user_id, min_ply, max_ply, result)
    /\ UNCHANGED <<tx, puzzles, puzzle_seq, user_puzzles, message_puzzles, clock,
                   next_message, post_cooldowns>>

PuzzleCommand(t, user_id, min_ply, max_ply) ==
    /\ \E result \in select_puzzle_for_user(user_id, min_ply, max_ply) :
            PuzzleSelect(t, user_id, min_ply, max_ply, result)
    /\ UNCHANGED <<session, reactions>>

\* show_me_command: SELECT * FROM puzzles WHERE id = ?, then _deliver_puzzle.
ShowMeCommand(t, user_id, puzzle_id) ==
    /\ FreeSlot(t)
    /\ tasks' = [tasks EXCEPT ![t] =
            IF \E p \in puzzles : p.id = puzzle_id
            THEN [Idle EXCEPT !.pc = "deliver", !.user = user_id,
                              !.puzzle = puzzle_id]
            ELSE Idle]
    /\ last' = NoCall
    /\ UNCHANGED <<tx, puzzles, puzzle_seq, user_puzzles, message_puzzles, clock,
                   next_message, post_cooldowns, session, reactions>>

\* _deliver_puzzle up to send_first_message: the totals and the user's state
\* are read for the message text, and the platform gives the message its id.
SendFirst(t, limit) ==
    /\ tasks[t].pc = "deliver"
    /\ next_message <= limit
    /\ tasks' = [tasks EXCEPT ![t].pc = "record", ![t].message = next_message]
    /\ next_message' = next_message + 1
    /\ last' = NoCall
    /\ UNCHANGED <<tx, puzzles, puzzle_seq, user_puzzles, message_puzzles, clock,
                   post_cooldowns>>

DeliverSend(t) == SendFirst(t, MaxMessages) /\ UNCHANGED <<session, reactions>>

\* _build_message_senders returns None (the user accepts no DM), or sending
\* raises: the handler ends with nothing recorded.
DeliverFails(t) ==
    /\ tasks[t].pc = "deliver"
    /\ tasks' = [tasks EXCEPT ![t] = Idle]
    /\ last' = NoCall
    /\ UNCHANGED <<tx, puzzles, puzzle_seq, user_puzzles, message_puzzles, clock,
                   next_message, post_cooldowns, session, reactions>>

\* _send_puzzle_messages after the reactions are added:
\* record_message_for_user, then the link message.
RecordDelivery(t) ==
    /\ tasks[t].pc = "record"
    /\ user_puzzles' = record_message_for_user(user_puzzles, tasks[t].user,
            tasks[t].puzzle, ToText(tasks[t].message), clock)
    /\ tasks' = [tasks EXCEPT ![t] = Idle]
    /\ last' = RecordCall(tasks[t].user, tasks[t].puzzle, tasks[t].message)
    /\ UNCHANGED <<tx, puzzles, puzzle_seq, message_puzzles, clock, next_message,
                   post_cooldowns>>

DeliverRecord(t) == RecordDelivery(t) /\ UNCHANGED <<session, reactions>>

\* One second passes.
Tick ==
    /\ clock < MaxClock
    /\ clock' = clock + 1
    /\ last' = NoCall
    /\ UNCHANGED <<tx, puzzles, puzzle_seq, user_puzzles, message_puzzles,
                   next_message, post_cooldowns, tasks, session, reactions>>

\* The instants at which a /post is looked at: around the cooldown of a
\* post made at 0 or 1 and around the age at which its entry is trimmed.
Instants == {0, 1, PostCooldown - 1, PostCooldown, CooldownMaxAge,
             CooldownMaxAge + 1}

\* Time passes until a later instant.
Elapse ==
    /\ \E now \in Instants : now > clock /\ clock' = now
    /\ last' = NoCall
    /\ UNCHANGED <<tx, puzzles, puzzle_seq, user_puzzles, message_puzzles,
                   next_message, post_cooldowns, tasks, session, reactions>>

\* ------------------------------------------------ calls of the service API
SolvedCall(user_id, puzzle_id, solved) ==
    [NoCall EXCEPT !.op = "update_solved", !.user = user_id,
                   !.puzzle = puzzle_id, !.solved = solved]

\* The liked column the user's row holds (NULL without a row).
StoredLiked(user_id, puzzle_id) ==
    LET state == user_puzzle_state(user_puzzles, user_id, puzzle_id) IN
    IF state = {} THEN NULL ELSE (CHOOSE up \in state : TRUE).liked

\* A call of update_like; prior is the liked column the call overwrites.
LikeCall(user_id, puzzle_id, liked) ==
    [NoCall EXCEPT !.op = "update_like", !.user = user_id,
                   !.puzzle = puzzle_id, !.liked = liked,
                   !.prior = StoredLiked(user_id, puzzle_id)]

\* update_solved(conn, user_id, puzzle_id, solved), called by the transport.
SetSolved(user_id, puzzle_id, solved) ==
    /\ user_puzzles' = update_solved(user_puzzles, user_id, puzzle_id, solved, clock)
    /\ last' = SolvedCall(user_id, puzzle_id, solved)
    /\ UNCHANGED <<tx, puzzles, puzzle_seq, message_puzzles, clock, next_message,
                   post_cooldowns, tasks, session, reactions>>

\* update_like(conn, user_id, puzzle_id, liked), called by the transport.
SetLiked(user_id, puzzle_id, liked) ==
    /\ user_puzzles' = update_like(user_puzzles, user_id, puzzle_id, liked)
    /\ last' = LikeCall(user_id, puzzle_id, liked)
    /\ UNCHANGED <<tx, puzzles, puzzle_seq, message_puzzles, clock, next_message,
                   post_cooldowns, tasks, session, reactions>>

\* record_message_for_user(conn, user_id, puzzle_id, message_id), called by
\* the transport; the call raises when the foreign key fails.
RecordMessage(user_id, puzzle_id, message) ==
    /\ user_puzzles' = record_message_for_user(user_puzzles, user_id,
                            puzzle_id, ToText(message), clock)
    /\ last' = [RecordCall(user_id, puzzle_id, message) EXCEPT
                    !.status = IF ForeignKeyOk(puzzle_id) THEN "ok"
                               ELSE "refused"]
    /\ UNCHANGED <<tx, puzzles, puzzle_seq, message_puzzles, clock, next_message,
                   post_cooldowns, tasks, session, reactions>>

\* record_message_mapping(conn, puzzle_id, message_id, channel_id=...,
\* posted_by=...), called by the transport.
MapMessage(puzzle_id, message, channel_id, posted_by) ==
    /\ message_puzzles' = record_message_mapping(message_puzzles, puzzle_id,
                              ToText(message), channel_id, posted_by)
    /\ last' = [NoCall EXCEPT !.op = "record_message_mapping",
                              !.puzzle = puzzle_id, !.message = message,
                              !.user = posted_by,
                              !.status = IF ForeignKeyOk(puzzle_id) THEN "ok"
                                         ELSE "refused"]
    /\ UNCHANGED <<tx, puzzles, puzzle_seq, user_puzzles, clock, next_message,
                   post_cooldowns, tasks, session, reactions>>

\* ------------------------------------------------------------------ /post
\* time.monotonic(), running with the store's clock.
Monotonic == clock + BootOffset

\* _trim_post_cooldowns with `now - ts >= max_age`: an entry of exactly
\* max_age is dropped too.
TrimFromMaxAge(cooldowns, now) ==
    [u \in Users |->
        IF cooldowns[u] # NULL /\ now - cooldowns[u][1] >= CooldownMaxAge
        THEN NULL ELSE cooldowns[u]]

\* _trim_post_cooldowns: entries older than max_age are dropped.
trim_post_cooldowns(cooldowns, now) ==
    [u \in Users |->
        IF cooldowns[u] # NULL /\ now - cooldowns[u][1] > CooldownMaxAge
        THEN NULL ELSE cooldowns[u]]

\* `last_post and now - last_post < 60`: an absent entry and a timestamp of
\* 0.0 are both falsy.
CooldownActive(cooldowns, user_id, now) ==
    LET last_post == cooldowns[user_id] IN
    /\ last_post # NULL
    /\ last_post[1] # 0
    /\ now - last_post[1] < PostCooldown

\* post_command, the user is inside the cooldown: the request is rejected
\* after the trim.
PostRejected(t, user_id, puzzle_id) ==
    LET trimmed == trim_post_cooldowns(post_cooldowns, Monotonic) IN
    /\ FreeSlot(t)
    /\ CooldownActive(trimmed, user_id, Monotonic)
    /\ post_cooldowns' = trimmed
    /\ last' = NoCall
    /\ UNCHANGED <<tx, puzzles, puzzle_seq, user_puzzles, message_puzzles, clock,
                   next_message, tasks, session, reactions>>

\* post_command up to _send_puzzle_messages: the trim, the cooldown check,
\* the puzzle row and the totals are read.
PostCommand(t, user_id, puzzle_id) ==
    LET trimmed == trim_post_cooldowns(post_cooldowns, Monotonic) IN
    /\ FreeSlot(t)
    /\ ~ CooldownActive(trimmed, user_id, Monotonic)
    /\ post_cooldowns' = trimmed
    /\ tasks' = [tasks EXCEPT ![t] =
            IF \E p \in puzzles : p.id = puzzle_id
            THEN [Idle EXCEPT !.pc = "post_send", !.user = user_id,
                              !.puzzle = puzzle_id]
            ELSE Idle]
    /\ last' = NoCall
    /\ UNCHANGED <<tx, puzzles, puzzle_seq, user_puzzles, message_puzzles, clock,
                   next_message, session, reactions>>

\* _send_puzzle_messages: the channel message is sent and gets its id.
PostSend(t) ==
    /\ tasks[t].pc = "post_send"
    /\ next_message <= MaxMessages
    /\ tasks' = [tasks EXCEPT ![t].pc = "post_record", ![t].message = next_message]
    /\ next_message' = next_message + 1
    /\ last' = NoCall
    /\ UNCHANGED <<tx, puzzles, puzzle_seq, user_puzzles, message_puzzles, clock,
                   post_cooldowns, session, reactions>>

\* _send_puzzle_messages without its call of record_message_for_user.
PostWithoutRow(t) ==
    /\ tasks[t].pc = "post_record"
    /\ tasks' = [tasks EXCEPT ![t].pc = "post_map"]
    /\ last' = NoCall
    /\ UNCHANGED <<tx, puzzles, puzzle_seq, user_puzzles, message_puzzles,
                   clock, next_message, post_cooldowns, session, reactions>>

\* _send_puzzle_messages: record_message_for_user for the posting user.
PostRecord(t) ==
    /\ tasks[t].pc = "post_record"
    /\ user_puzzles' = record_message_for_user(user_puzzles, tasks[t].user,
            tasks[t].puzzle, ToText(tasks[t].message), clock)
    /\ tasks' = [tasks EXCEPT ![t] =
            IF ForeignKeyOk(tasks[t].puzzle)
            THEN [tasks[t] EXCEPT !.pc = "post_map"] ELSE Idle]
    /\ last' = RecordCall(tasks[t].user, tasks[t].puzzle, tasks[t].message)
    /\ UNCHANGED <<tx, puzzles, puzzle_seq, message_puzzles, clock, next_message,
                   post_cooldowns, session, reactions>>

\* Sending raises discord.Forbidden or discord.HTTPException (the first
\* message before the row is recorded, the link message after it): the
\* handler reports the failure and returns.
PostFails(t) ==
    /\ tasks[t].pc \in {"post_send", "post_map"}
    /\ tasks' = [tasks EXCEPT ![t] = Idle]
    /\ last' = NoCall
    /\ UNCHANGED <<tx, puzzles, puzzle_seq, user_puzzles, message_puzzles, clock,
                   next_message, post_cooldowns, session, reactions>>

MappingCall(puzzle_id, message) ==
    [NoCall EXCEPT !.op = "record_message_mapping", !.puzzle = puzzle_id,
                   !.message = message]

\* post_command after _send_puzzle_messages: record_message_mapping, then
\* the cooldown entry of the user.
PostMap(t) ==
    /\ tasks[t].pc = "post_map"
    /\ message_puzzles' = record_message_mapping(message_puzzles,
            tasks[t].puzzle, ToText(tasks[t].message), "c1", tasks[t].user)
    /\ post_cooldowns' =
            IF ForeignKeyOk(tasks[t].puzzle)
            THEN [post_cooldowns EXCEPT ![tasks[t].user] = Some(Monotonic)]
            ELSE post_cooldowns
    /\ tasks' = [tasks EXCEPT ![t] = Idle]
    /\ last' = MappingCall(tasks[t].puzzle, tasks[t].message)
    /\ UNCHANGED <<tx, puzzles, puzzle_seq, user_puzzles, clock, next_message,
                   session, reactions>>

\* -------------------------------------------------------------- reactions
Emojis == {"check", "up", "down", "other"}

\* The handler of a reaction event after the first query of
\* _resolve_puzzle_for_reaction, lookup_puzzle_by_message: it has the puzzle
\* of a row of the user (LIMIT 1 returns any one), or it goes on to
\* puzzle_for_message.
Resolving(user_id, message, emoji, added) ==
    IF lookup_puzzle_by_message(user_id, message) = {}
    THEN {[Idle EXCEPT !.pc = "react_fallback", !.user = user_id,
                       !.message = message, !.emoji = emoji,
                       !.added = added]}
    ELSE {[Idle EXCEPT !.pc = "react_apply", !.user = user_id,
                       !.puzzle = p.id, !.message = message,
                       !.emoji = emoji, !.added = added] :
            p \in lookup_puzzle_by_message(user_id, message)}

\* on_raw_reaction_add / on_raw_reaction_remove for an event of a user who
\* is not the bot, up to the first query of _resolve_puzzle_for_reaction.
ReactionBegins(t, user_id, message, emoji, added) ==
    /\ FreeSlot(t)
    /\ message < next_message
    /\ \E task \in Resolving(user_id, message, emoji, added) :
            tasks' = [tasks EXCEPT ![t] = task]
    /\ last' = NoCall
    /\ UNCHANGED <<tx, puzzles, puzzle_seq, user_puzzles, message_puzzles, clock,
                   next_message, post_cooldowns, session>>

\* The event of a reaction whose state on the platform is not followed.
ReactionEvent(t, user_id, message, emoji, added) ==
    ReactionBegins(t, user_id, message, emoji, added) /\ UNCHANGED reactions

\* A user adds a reaction to a message, or removes one of their own, and
\* the platform sends the event.
React(t, user_id, message, emoji) ==
    /\ <<user_id, message, emoji>> \notin reactions
    /\ reactions' = reactions \cup {<<user_id, message, emoji>>}
    /\ ReactionBegins(t, user_id, message, emoji, TRUE)

Unreact(t, user_id, message, emoji) ==
    /\ <<user_id, message, emoji>> \in reactions
    /\ reactions' = reactions \ {<<user_id, message, emoji>>}
    /\ ReactionBegins(t, user_id, message, emoji, FALSE)

\* self.user.id, the bot's own user.
BotUser == "bot"

\* on_raw_reaction_add / on_raw_reaction_remove without the test of
\* payload.user_id against self.user.id.
ReactionOfAnyUser(t, message, emoji, added) ==
    ReactionEvent(t, BotUser, message, emoji, added)

\* on_raw_reaction_add / on_raw_reaction_remove for an event of the bot's
\* own user, such as the reactions _send_puzzle_messages adds to a message
\* it has sent: the handler returns.
OwnReaction(t, message, emoji, added) ==
    /\ FreeSlot(t)
    /\ message < next_message
    /\ last' = [NoCall EXCEPT !.op = "on_raw_reaction", !.user = BotUser,
                              !.message = message]
    /\ UNCHANGED <<tx, puzzles, puzzle_seq, user_puzzles, message_puzzles, clock,
                   next_message, post_cooldowns, tasks, session, reactions>>

\* _resolve_puzzle_for_reaction: puzzle_for_message; without a mapping the
\* handler returns.
ReactionFallback(t) ==
    /\ tasks[t].pc = "react_fallback"
    /\ \/ \E p \in puzzle_for_message(ToText(tasks[t].message)) :
            tasks' = [tasks EXCEPT ![t].pc = "react_materialize",
                                   ![t].puzzle = p.id]
       \/ /\ puzzle_for_message(ToText(tasks[t].message)) = {}
          /\ tasks' = [tasks EXCEPT ![t] = Idle]
    /\ last' = NoCall
    /\ UNCHANGED <<tx, puzzles, puzzle_seq, user_puzzles, message_puzzles, clock,
                   next_message, post_cooldowns, session, reactions>>

\* _resolve_puzzle_for_reaction: record_message_for_user for the reacting
\* user and the fallback puzzle.
ReactionMaterialize(t) ==
    /\ tasks[t].pc = "react_materialize"
    /\ user_puzzles' = record_message_for_user(user_puzzles, tasks[t].user,
            tasks[t].puzzle, ToText(tasks[t].message), clock)
    /\ tasks' = [tasks EXCEPT ![t] =
            IF ForeignKeyOk(tasks[t].puzzle)
            THEN [tasks[t] EXCEPT !.pc = "react_apply"] ELSE Idle]
    /\ last' = RecordCall(tasks[t].user, tasks[t].puzzle, tasks[t].message)
    /\ UNCHANGED <<tx, puzzles, puzzle_seq, message_puzzles, clock, next_message,
                   post_cooldowns, session, reactions>>

\* _compute_like_state over the fetched message (None when the fetch failed).
compute_like_state(fetched, has_up, has_down) ==
    IF ~ fetched THEN NULL
    ELSE IF has_up /\ ~ has_down THEN Some(1)
    ELSE IF has_down /\ ~ has_up THEN Some(-1)
    ELSE NULL

\* The call the handler makes for the emoji: on_raw_reaction_add sets, and
\* on_raw_reaction_remove recomputes from the reactions the user still has
\* on the fetched message.
ReactionCall(task, fetched, has_check, has_up, has_down) ==
    IF task.emoji = "check"
    THEN SolvedCall(task.user, task.puzzle,
                    IF task.added THEN TRUE ELSE fetched /\ has_check)
    ELSE IF task.emoji \in {"up", "down"}
    THEN LikeCall(task.user, task.puzzle,
                  IF task.added
                  THEN (IF task.emoji = "up" THEN Some(1) ELSE Some(-1))
                  ELSE compute_like_state(fetched, has_up, has_down))
    ELSE NoCall

\* The table after a call of update_solved or update_like.
ApplyCall(table, call, now) ==
    IF call.op = "update_solved"
    THEN update_solved(table, call.user, call.puzzle, call.solved, now)
    ELSE IF call.op = "update_like"
    THEN update_like(table, call.user, call.puzzle, call.liked)
    ELSE table

\* on_raw_reaction_add / on_raw_reaction_remove after the puzzle is
\* resolved: the row is updated by `call`, and the handler goes on as
\* `after`.
ReactionWrite(t, call, after) ==
    /\ tasks[t].pc = "react_apply"
    /\ user_puzzles' = ApplyCall(user_puzzles, call, clock)
    /\ tasks' = [tasks EXCEPT ![t] = after]
    /\ last' = call
    /\ UNCHANGED <<tx, puzzles, puzzle_seq, message_puzzles, clock, next_message,
                   post_cooldowns, session>>

\* The message is fetched, with any reactions on it, and the row is
\* updated.
ReactionApply(t, fetched, has_check, has_up, has_down) ==
    /\ ReactionWrite(t, ReactionCall(tasks[t], fetched, has_check, has_up,
                                     has_down), Idle)
    /\ UNCHANGED reactions

\* _user_has_reaction over the reactions the platform holds.
UserHasReaction(user_id, message, emoji) ==
    <<user_id, message, emoji>> \in reactions

\* UPVOTE_EMOJI for DOWNVOTE_EMOJI and the reverse.
Opposite(emoji) == IF emoji = "up" THEN "down" ELSE "up"

\* The message is fetched, with the reactions the platform holds, and the
\* row is updated; after update_like for an added vote on a fetched message
\* the handler goes on to _remove_reaction_if_present.
ReactionFetched(t, fetched) ==
    LET task == tasks[t]
        call == ReactionCall(task, fetched,
                    UserHasReaction(task.user, task.message, "check"),
                    UserHasReaction(task.user, task.message, "up"),
                    UserHasReaction(task.user, task.message, "down"))
    IN  /\ ReactionWrite(t, call,
                IF task.added /\ task.emoji \in {"up", "down"} /\ fetched
                THEN [task EXCEPT !.pc = "react_clear"] ELSE Idle)
        /\ UNCHANGED reactions

\* _remove_reaction_if_present: the user's opposite reaction, when it is on
\* the message, is removed, and the platform sends the event of the
\* removal, whose handler begins; or message.remove_reaction raises
\* HTTPException and the reaction stays.
ReactionClear(t, removed) ==
    LET task == tasks[t]
        opposite == <<task.user, task.message, Opposite(task.emoji)>>
    IN  /\ task.pc = "react_clear"
        /\ IF opposite \in reactions /\ removed
           THEN /\ reactions' = reactions \ {opposite}
                /\ \E begun \in Resolving(task.user, task.message,
                                          Opposite(task.emoji), FALSE) :
                        tasks' = [tasks EXCEPT ![t] = begun]
           ELSE /\ reactions' = reactions
                /\ tasks' = [tasks EXCEPT ![t] = Idle]
        /\ last' = NoCall
        /\ UNCHANGED <<tx, puzzles, puzzle_seq, user_puzzles, message_puzzles,
                       clock, next_message, post_cooldowns, session>>

\* ---------------------------------------------------------------- /delete
\* The tables, as a transaction saves and restores them.
Tables ==
    [puzzles |-> puzzles, puzzle_seq |-> puzzle_seq,
     user_puzzles |-> user_puzzles, message_puzzles |-> message_puzzles]

\* The statements of the script of delete_puzzle, in their order:
\* DELETE FROM user_puzzles, DELETE FROM message_puzzles, DELETE FROM
\* puzzles. The script stops after `done` of them.
DeleteScriptRun(tables, puzzle_id, done) ==
    [puzzles |->
        IF done >= 3 THEN {p \in tables.puzzles : p.id # puzzle_id}
        ELSE tables.puzzles,
     puzzle_seq |-> tables.puzzle_seq,
     user_puzzles |->
        IF done >= 1
        THEN {up \in tables.user_puzzles : up.puzzle_id # puzzle_id}
        ELSE tables.user_puzzles,
     message_puzzles |->
        IF done >= 2
        THEN {mp \in tables.message_puzzles : mp.puzzle_id # puzzle_id}
        ELSE tables.message_puzzles]

\* The store holds the tables `tables`.
Store(tables) ==
    /\ puzzles' = tables.puzzles
    /\ puzzle_seq' = tables.puzzle_seq
    /\ user_puzzles' = tables.user_puzzles
    /\ message_puzzles' = tables.message_puzzles

\* A call of delete_puzzle as it ends: counts is what it returns, removed
\* the numbers of user_puzzles and message_puzzles rows its script deleted.
DeleteCall(puzzle_id, status, counts, removed) ==
    [NoCall EXCEPT !.op = "delete_puzzle", !.puzzle = puzzle_id,
                   !.status = status, !.counts = counts, !.removed = removed]

\* delete_command up to the first query of delete_puzzle: SELECT 1 FROM
\* puzzles WHERE id = ?; without a row delete_puzzle returns None.
DeleteCommand(t, puzzle_id) ==
    /\ FreeSlot(t)
    /\ IF \E p \in puzzles : p.id = puzzle_id
       THEN /\ tasks' = [tasks EXCEPT ![t] =
                    [Idle EXCEPT !.pc = "delete_count_users",
                                 !.puzzle = puzzle_id]]
            /\ last' = NoCall
       ELSE /\ tasks' = [tasks EXCEPT ![t] = Idle]
            /\ last' = DeleteCall(puzzle_id, "not_found", <<0, 0>>, <<0, 0>>)
    /\ UNCHANGED <<tx, puzzles, puzzle_seq, user_puzzles, message_puzzles,
                   clock, next_message, post_cooldowns, session, reactions>>

\* SELECT COUNT(*) FROM user_puzzles WHERE puzzle_id = ?
DeleteCountUsers(t) ==
    /\ tasks[t].pc = "delete_count_users"
    /\ tasks' = [tasks EXCEPT
            ![t].pc = "delete_count_messages",
            ![t].counts = <<Cardinality({up \in user_puzzles :
                                up.puzzle_id = tasks[t].puzzle}), 0>>]
    /\ last' = NoCall
    /\ UNCHANGED <<tx, puzzles, puzzle_seq, user_puzzles, message_puzzles,
                   clock, next_message, post_cooldowns, session, reactions>>

\* SELECT COUNT(*) FROM message_puzzles WHERE puzzle_id = ?
DeleteCountMessages(t) ==
    /\ tasks[t].pc = "delete_count_messages"
    /\ tasks' = [tasks EXCEPT
            ![t].pc = "delete_script",
            ![t].counts = <<tasks[t].counts[1],
                            Cardinality({mp \in message_puzzles :
                                mp.puzzle_id = tasks[t].puzzle})>>]
    /\ last' = NoCall
    /\ UNCHANGED <<tx, puzzles, puzzle_seq, user_puzzles, message_puzzles,
                   clock, next_message, post_cooldowns, session, reactions>>

\* executescript runs to its COMMIT in one call: a pending transaction is
\* committed first, then BEGIN, the three DELETEs and COMMIT; delete_puzzle
\* returns the counts it read.
DeleteScript(t) ==
    LET after == DeleteScriptRun(Tables, tasks[t].puzzle, 3) IN
    /\ tasks[t].pc = "delete_script"
    /\ Store(after)
    /\ tx' = NULL
    /\ tasks' = [tasks EXCEPT ![t] = Idle]
    /\ last' = DeleteCall(tasks[t].puzzle, "deleted", tasks[t].counts,
            <<Cardinality(user_puzzles \ after.user_puzzles),
              Cardinality(message_puzzles \ after.message_puzzles)>>)
    /\ UNCHANGED <<clock, next_message, post_cooldowns, session, reactions>>

\* A statement that writes begins a transaction when none is open.
Begun == IF tx = NULL THEN Some(Tables) ELSE tx

\* delete_puzzle: a statement of the script fails after `done` of its
\* DELETEs. The pending transaction was committed and BEGIN has run; the
\* transaction stays open with the rows deleted so far, unless the store
\* has rolled it back itself (auto).
DeleteScriptFails(t, done, auto) ==
    /\ tasks[t].pc = "delete_script"
    /\ Store(IF auto THEN Tables
             ELSE DeleteScriptRun(Tables, tasks[t].puzzle, done))
    /\ tx' = IF auto THEN NULL ELSE Some(Tables)
    /\ tasks' = [tasks EXCEPT ![t].pc = "delete_rollback",
                              ![t].began = Some(Tables)]
    /\ last' = NoCall
    /\ UNCHANGED <<clock, next_message, post_cooldowns, session, reactions>>

\* delete_puzzle: except Exception: await conn.rollback(); raise.
\* delete_command reports the failure.
DeleteRollback(t) ==
    /\ tasks[t].pc = "delete_rollback"
    /\ Store(IF tx = NULL THEN Tables ELSE tx[1])
    /\ tx' = NULL
    /\ tasks' = [tasks EXCEPT ![t] = Idle]
    /\ last' = DeleteCall(tasks[t].puzzle, "failed", <<0, 0>>, <<0, 0>>)
    /\ UNCHANGED <<clock, next_message, post_cooldowns, session, reactions>>

\* ------------------------------------------------- a write and its commit
TitleCall(puzzle_id, title) ==
    [NoCall EXCEPT !.op = "update_puzzle_title", !.puzzle = puzzle_id,
                   !.title = title]

\* The tables after the statement of a service call.
Execute(tables, call, now) ==
    [tables EXCEPT
        !.user_puzzles =
            IF call.op = "record_message_for_user"
            THEN record_message_for_user(@, call.user, call.puzzle,
                                         ToText(call.message), now)
            ELSE ApplyCall(@, call, now),
        !.message_puzzles =
            IF call.op = "record_message_mapping"
            THEN record_message_mapping(@, call.puzzle, ToText(call.message),
                                        "c1", call.user)
            ELSE @,
        !.puzzles =
            IF call.op = "update_puzzle_title"
            THEN update_puzzle_title(@, call.puzzle, call.title)
            ELSE @]

\* The statement raises IntegrityError (the foreign key), or
\* update_puzzle_title finds no puzzle and returns False.
Refused(call) ==
    /\ call.op \in {"record_message_for_user", "record_message_mapping",
                    "update_puzzle_title"}
    /\ ~ ForeignKeyOk(call.puzzle)

\* A service call up to its await conn.execute(...): the statement runs on
\* the shared connection and begins a transaction when none is open.
CallStatement(t, call) ==
    /\ FreeSlot(t)
    /\ Store(Execute(Tables, call, clock))
    /\ tx' = IF call.op = "update_puzzle_title" /\ Refused(call)
             THEN tx ELSE Begun
    /\ tasks' = [tasks EXCEPT ![t] =
            IF Refused(call) THEN Idle
            ELSE [Idle EXCEPT !.pc = "call_commit", !.call = call]]
    /\ last' = IF Refused(call) THEN [call EXCEPT !.status = "refused"]
               ELSE NoCall
    /\ UNCHANGED <<clock, next_message, post_cooldowns, session, reactions>>

\* await conn.commit(): the call returns, and the handler takes the write
\* as made.
CallCommit(t) ==
    /\ tasks[t].pc = "call_commit"
    /\ tx' = NULL
    /\ tasks' = [tasks EXCEPT ![t] = Idle]
    /\ last' = [tasks[t].call EXCEPT !.status = "ok"]
    /\ UNCHANGED <<puzzles, puzzle_seq, user_puzzles, message_puzzles, clock,
                   next_message, post_cooldowns, session, reactions>>

\* ----------------------------------------------------------------- /stats
StatsCall(user_id, stats) ==
    [NoCall EXCEPT !.op = "user_stats", !.user = user_id, !.stats = Some(stats)]

\* stats_command up to the first statement of user_stats:
\* SELECT COUNT(*) FROM puzzles. `began` keeps the tables of that moment.
StatsCount(t, user_id) ==
    /\ FreeSlot(t)
    /\ tasks' = [tasks EXCEPT ![t] =
            [Idle EXCEPT !.pc = "stats_aggregate", !.user = user_id,
                         !.before = CountRows(puzzles),
                         !.began = Some(Tables)]]
    /\ last' = NoCall
    /\ UNCHANGED <<tx, puzzles, puzzle_seq, user_puzzles, message_puzzles, clock,
                   next_message, post_cooldowns, session, reactions>>

\* user_stats: the aggregate SELECT over user_puzzles and the return;
\* stats_command sends the numbers.
StatsAggregate(t) ==
    /\ tasks[t].pc = "stats_aggregate"
    /\ tasks' = [tasks EXCEPT ![t] = Idle]
    /\ last' = StatsCall(tasks[t].user,
                         UserSummary(tasks[t].before, user_puzzles, tasks[t].user))
    /\ UNCHANGED <<tx, puzzles, puzzle_seq, user_puzzles, message_puzzles, clock,
                   next_message, post_cooldowns, session, reactions>>

\* -------------------------------------------------------------- csv lines
\* A str is a sequence of pieces: a piece is one whitespace character, one
\* semicolon, one digit character or a word of other characters. Text(s)
\* is the str written out.
Whitespace == {" ", "\t"}
Semicolon == ";"
\* Characters for which str.isdigit() is true and int() gives a value.
DecimalDigits == {"0", "1", "3"}
\* A character for which str.isdigit() is true and int() raises ValueError.
Superscript == "^2"
\* A run of decimal digits that reads 2^63, one more than an INTEGER column
\* of SQLite holds.
TooLong == "9223372036854775808"
\* The largest value of an INTEGER column, 2^63 - 1, scaled to the integers
\* of the model.
MaxInteger == 2147483646

RECURSIVE Text(_)
Text(s) == IF s = <<>> THEN "" ELSE s[1] \o Text(Tail(s))

\* str.strip()
RECURSIVE LStrip(_)
LStrip(s) ==
    IF s # <<>> /\ s[1] \in Whitespace THEN LStrip(Tail(s)) ELSE s

RECURSIVE RStrip(_)
RStrip(s) ==
    IF s # <<>> /\ s[Len(s)] \in Whitespace
    THEN RStrip(SubSeq(s, 1, Len(s) - 1)) ELSE s

\* str.lstrip() in the place of str.strip().
StripLeft(s) == LStrip(s)

Strip(s) == RStrip(LStrip(s))

\* str.split(";"): the fields between semicolons, empty ones included.
RECURSIVE SplitFields(_)
SplitFields(s) ==
    IF \A i \in 1..Len(s) : s[i] # Semicolon THEN <<s>>
    ELSE LET i == CHOOSE k \in 1..Len(s) :
                    s[k] = Semicolon /\ \A m \in 1..(k - 1) : s[m] # Semicolon
         IN  <<SubSeq(s, 1, i - 1)>> \o SplitFields(SubSeq(s, i + 1, Len(s)))

\* str.split(): the runs of characters between whitespace.
RECURSIVE SplitTokens(_)
SplitTokens(s) ==
    LET rest == LStrip(s) IN
    IF rest = <<>> THEN <<>>
    ELSE IF \A i \in 1..Len(rest) : rest[i] \notin Whitespace THEN <<rest>>
    ELSE LET i == CHOOSE k \in 1..Len(rest) :
                    /\ rest[k] \in Whitespace
                    /\ \A m \in 1..(k - 1) : rest[m] \notin Whitespace
         IN  <<SubSeq(rest, 1, i - 1)>>
                \o SplitTokens(SubSeq(rest, i + 1, Len(rest)))

\* sep.join(parts) for a list of str values written out.
RECURSIVE Join(_, _)
Join(parts, sep) ==
    IF parts = <<>> THEN ""
    ELSE IF Len(parts) = 1 THEN parts[1]
    ELSE parts[1] \o sep \o Join(Tail(parts), sep)

\* [s for s in parts if s != ""]
RECURSIVE NonEmpty(_)
NonEmpty(parts) ==
    IF parts = <<>> THEN <<>>
    ELSE IF parts[1] = "" THEN NonEmpty(Tail(parts))
    ELSE <<parts[1]>> \o NonEmpty(Tail(parts))

\* str.lower() of a word.
Lower(piece) ==
    CASE piece = "InProgress" -> "inprogress"
      [] piece = "INPROGRESS" -> "inprogress"
      [] piece = "White[3]" -> "white[3]"
      [] piece = "BLACK" -> "black"
      [] piece = "Base" -> "base"
      [] piece = "wS1" -> "ws1"
      [] piece = "bS1" -> "bs1"
      [] piece = "wQ" -> "wq"
      [] piece = "wA1" -> "wa1"
      [] piece = "wG1" -> "wg1"
      [] piece = "wQ-bS1" -> "wq-bs1"
      [] piece = "bQ-wS1" -> "bq-ws1"
      [] OTHER -> piece

\* s.lower() == "inprogress"
IsInProgress(s) == Len(s) = 1 /\ Lower(s[1]) = "inprogress"

\* s.lower().startswith("white"), s.lower().startswith("black")
StartsWithWhite(s) == s # <<>> /\ Lower(s[1]) \in {"white[3]"}
StartsWithBlack(s) == s # <<>> /\ Lower(s[1]) \in {"black"}

\* tok.isdecimal() in the place of tok.isdigit(): the token is made of
\* decimal digits.
IsDecimal(tok) ==
    /\ tok # <<>>
    /\ \A i \in 1..Len(tok) : tok[i] \in DecimalDigits \cup {TooLong}

\* tok.isdigit()
IsDigit(tok) ==
    /\ tok # <<>>
    /\ \A i \in 1..Len(tok) : tok[i] \in DecimalDigits \cup {Superscript, TooLong}

\* int(tok) raises ValueError.
IntRaises(tok) == \E i \in 1..Len(tok) : tok[i] = Superscript

DigitValue(piece) ==
    CASE piece = "0" -> 0 [] piece = "1" -> 1 [] piece = "3" -> 3

\* int(tok) for a token of decimal digits: a token that holds the run
\* TooLong reads more than MaxInteger.
RECURSIVE ToInt(_)
ToInt(tok) ==
    IF \E i \in 1..Len(tok) : tok[i] = TooLong THEN MaxInteger + 1
    ELSE IF Len(tok) = 1 THEN DigitValue(tok[1])
    ELSE ToInt(SubSeq(tok, 1, Len(tok) - 1)) * 10 + DigitValue(tok[Len(tok)])

\* The index of the last token for which isdigit() is true, or 0.
LastDigit(tokens) ==
    IF \A j \in 1..Len(tokens) : ~ IsDigit(tokens[j]) THEN 0
    ELSE CHOOSE j \in 1..Len(tokens) :
            IsDigit(tokens[j])
            /\ \A m \in (j + 1)..Len(tokens) : ~ IsDigit(tokens[m])

\* The index of the first token for which isdigit() is true, or 0.
FirstDigit(tokens) ==
    IF \A j \in 1..Len(tokens) : ~ IsDigit(tokens[j]) THEN 0
    ELSE CHOOSE j \in 1..Len(tokens) :
            IsDigit(tokens[j]) /\ \A m \in 1..(j - 1) : ~ IsDigit(tokens[m])

\* [Text(parts[i]) for each i]
TextOfEach(parts) == [i \in 1..Len(parts) |-> Text(parts[i])]

\* parse_csv_line_detailed: the loop over remaining from index idx on, with
\* the move segments collected so far. solution_segments stays empty until
\* the ply is found, and the loop ends with the segment that holds it.
RECURSIVE ScanSegments(_, _, _)
ScanSegments(remaining, idx, move_segments) ==
    IF idx > Len(remaining)
    THEN [ply |-> NULL, raised |-> FALSE, move_segments |-> move_segments,
          solution_segments |-> <<>>]
    ELSE
    LET seg_str == Strip(remaining[idx])
        tokens == SplitTokens(seg_str)
        j == FirstDigit(tokens)
    IN  IF j = 0
        THEN ScanSegments(remaining, idx + 1,
                          Append(move_segments, Text(seg_str)))
        ELSE IF IntRaises(tokens[j])
        THEN [ply |-> NULL, raised |-> TRUE, move_segments |-> move_segments,
              solution_segments |-> <<>>]
        ELSE
        LET before == Join(TextOfEach(SubSeq(tokens, 1, j - 1)), " ")
            after_str == Join(TextOfEach(SubSeq(tokens, j + 1, Len(tokens))),
                              " ")
            later == [k \in 1..(Len(remaining) - idx) |->
                        Text(Strip(remaining[idx + k]))]
        IN  [ply |-> Some(ToInt(tokens[j])), raised |-> FALSE,
             move_segments |->
                IF before # "" THEN Append(move_segments, before)
                ELSE move_segments,
             solution_segments |->
                (IF after_str # "" THEN <<after_str>> ELSE <<>>) \o later]

\* What parse_csv_line_detailed returns: a record and no reason, or no
\* record and a reason.
Parsed(record) == [record |-> Some(record), reason |-> NULL]
Failure(reason) == [record |-> NULL, reason |-> Some(reason)]

\* ----------------------------------------------------------------- /title
\* title_command: the largest length of a title.
TitleLimit == 60
\* A word of TitleLimit characters.
LongWord == "xxxxxxxxxxxxxxxxxxxxxxxxxxxxxxxxxxxxxxxxxxxxxxxxxxxxxxxxxxxx"

\* title_command for the title as given (None when omitted): it is
\* stripped and measured; a title that is too long is answered at once,
\* and otherwise update_puzzle_title runs up to its UPDATE with the
\* stripped title, or None when that is empty.
TitleCommand(t, puzzle_id, title) ==
    LET normalized == IF title = NULL THEN <<>> ELSE Strip(title[1])
        normalized_title == IF normalized = <<>> THEN NULL
                            ELSE Some(Text(normalized))
    IN  IF normalized # <<>> /\ Len(Text(normalized)) > TitleLimit
        THEN /\ FreeSlot(t)
             /\ tasks' = [tasks EXCEPT ![t] = Idle]
             /\ last' = [TitleCall(puzzle_id, NULL)
                            EXCEPT !.status = "too long", !.text = title]
             /\ UNCHANGED <<tx, puzzles, puzzle_seq, user_puzzles,
                            message_puzzles, clock, next_message,
                            post_cooldowns, session, reactions>>
        ELSE CallStatement(t, [TitleCall(puzzle_id, normalized_title)
                                    EXCEPT !.text = title])

\* ------------------------------------------------------------------- /add
\* A PuzzleRecord as parse_csv_line_detailed returns it for /add.
PuzzleRecord(uhp, solution, ply) ==
    [uhp |-> uhp, solution |-> solution, ply |-> ply, title |-> NULL,
     author |-> "Mzinga", to_move |-> TRUE]

\* parse_csv_line_detailed(line, default_author=""): parts[i] of the source
\* is parts[i + 1] here.
parse_csv_line_detailed(line) ==
    LET stripped == Strip(line)
        parts == SplitFields(stripped)
        variant == Text(Strip(parts[1]))
        has_header ==
            /\ Len(parts) >= 3
            /\ IsInProgress(Strip(parts[2]))
            /\ \/ StartsWithWhite(Strip(parts[3]))
               \/ StartsWithBlack(Strip(parts[3]))
        start_idx == IF has_header THEN 3 ELSE 1
        remaining == SubSeq(parts, start_idx + 1, Len(parts))
        scan == ScanSegments(remaining, 1, <<>>)
        solution == Join(NonEmpty(scan.solution_segments), ";")
        uhp == Join(<<variant>> \o NonEmpty(scan.move_segments), ";")
        to_move == IF has_header THEN StartsWithWhite(Strip(parts[3]))
                   ELSE Len(scan.move_segments) % 2 = 0
    IN  IF stripped = <<>> THEN Failure("moves")
        ELSE IF Len(parts) < 2 THEN Failure("moves")
        ELSE IF Len(parts) <= start_idx THEN Failure("moves")
        ELSE IF scan.ply = NULL THEN Failure("ply")
        ELSE IF solution = "" THEN Failure("solution")
        ELSE Parsed([PuzzleRecord(uhp, solution, scan.ply)
                        EXCEPT !.to_move = to_move])

\* The moves of the uhps of UhpPool, and a line of an upload that gives
\* the uhp UhpPool[i] with a ply and a solution.
PoolMoves ==
    <<<<"wS1">>, <<"wS1", ";", "bS1">>, <<"wQ">>, <<"wA1">>, <<"wG1">>>>
UploadLine(i, ply, solution) ==
    <<"Base", ";">> \o PoolMoves[i] \o <<" ", ply, " ", solution>>

\* add_command: the largest number of non-empty lines of an upload.
LineCap == 15

\* The ids the catalog can reach in a behaviour with imports.
MaxIds == MaxPuzzles + 1

\* The upload of DeleteSpec: the first puzzle of the seed file again.
SeedUpload == <<UploadLine(MaxIds, "1", "wQ-bS1")>>

\* The uploads of ImportSpec carry a stored uhp with another solution and
\* ply, new uhps, and one uhp twice.
StoredAgainLine == UploadLine(1, "0", "bQ-wS1")
FreshOneLine == UploadLine(MaxIds, "1", "wQ-bS1")
FreshOneAgainLine == UploadLine(MaxIds, "0", "bQ-wS1")
FreshTwoLine == UploadLine(MaxIds + 1, "1", "wQ-bS1")
StoredAgain == parse_csv_line_detailed(StoredAgainLine).record[1]
FreshOne == parse_csv_line_detailed(FreshOneLine).record[1]
FreshOneAgain == parse_csv_line_detailed(FreshOneAgainLine).record[1]
FreshTwo == parse_csv_line_detailed(FreshTwoLine).record[1]

Uploads ==
    {<<StoredAgainLine>>, <<StoredAgainLine, FreshOneLine>>,
     <<FreshOneLine, FreshOneAgainLine>>, <<FreshOneAgainLine, FreshTwoLine>>}

\* The uploads of IdSpec.
IdUploads == {<<StoredAgainLine>>, <<FreshOneLine>>, <<FreshTwoLine>>}

\* The uploads of UploadSpec: up to MaxLines lines, each a blank line, a
\* line that fails for the reason ply, a line with a ply too large for an
\* INTEGER column, or one of two lines that parse and give the same uhp with
\* different solutions and plys; some uploads with a line that fails for
\* the reason moves, a line of a stored uhp and a line of another uhp; and
\* one upload a line more than LineCap long.
MaxLines == 3
BlankLine == <<" ">>
NoMovesLine == <<"Base">>
NoPlyLine == <<"Base", ";", "wA1">>
FirstLine == <<"Base", ";", "wA1", " ", "1", " ", "wQ-bS1">>
SameUhpLine == <<"Base", ";", " ", "wA1", " ", ";", "0", " ", "bQ-wS1">>
OtherLine == <<"Base", ";", "wG1", " ", "3", " ", "wQ">>
OverflowLine == <<"Base", ";", "wQ", " ", TooLong, " ", "wQ-bS1">>
UploadLines == {BlankLine, NoPlyLine, FirstLine, SameUhpLine, OverflowLine}
TooManyLines == [i \in 1..(LineCap + 1) |-> FirstLine]
UploadTexts ==
    UNION {[1..n -> UploadLines] : n \in 1..MaxLines}
        \cup {TooManyLines, <<NoMovesLine, StoredAgainLine, OtherLine>>,
              <<StoredAgainLine>>, <<OtherLine, NoMovesLine, FirstLine>>,
              <<OtherLine, OverflowLine, OtherLine>>}

\* load_puzzles_from_file, add_command: one line is handed to
\* parse_csv_line_detailed, which returns.
ParseLine ==
    /\ last.op = "line"
    /\ last' = [last EXCEPT
            !.op = "parse_csv_line_detailed",
            !.result = parse_csv_line_detailed(last.text[1])]
    /\ UNCHANGED <<tx, puzzles, puzzle_seq, user_puzzles, message_puzzles,
                   clock, next_message, post_cooldowns, tasks, session, reactions>>

\* A deduplication that keeps the last record of each uhp.
RECURSIVE KeepLast(_)
KeepLast(parsed) ==
    IF parsed = <<>> THEN <<>>
    ELSE LET rest == KeepLast(Tail(parsed))
         IN  IF \E i \in 1..Len(rest) : rest[i].uhp = parsed[1].uhp
             THEN rest ELSE <<parsed[1]>> \o rest

\* add_command: the first record of each uhp is kept, in the order of the
\* upload.
RECURSIVE Deduped(_)
Deduped(parsed) ==
    IF parsed = <<>> THEN <<>>
    ELSE LET front == Deduped(SubSeq(parsed, 1, Len(parsed) - 1))
             record == parsed[Len(parsed)]
         IN  IF \E i \in 1..Len(front) : front[i].uhp = record.uhp
             THEN front ELSE Append(front, record)

\* SELECT uhp FROM puzzles WHERE uhp IN (...)
ExistingUhp(records) ==
    {p.uhp : p \in puzzles} \cap {records[i].uhp : i \in 1..Len(records)}

\* The records whose uhp is not in existing_uhp, in order.
RECURSIVE NewRecords(_, _)
NewRecords(records, existing_uhp) ==
    IF records = <<>> THEN <<>>
    ELSE LET front == NewRecords(SubSeq(records, 1, Len(records) - 1),
                                 existing_uhp)
             record == records[Len(records)]
         IN  IF record.uhp \in existing_uhp THEN front
             ELSE Append(front, record)

\* INSERT INTO puzzles with id INTEGER PRIMARY KEY without AUTOINCREMENT:
\* the new row takes the largest id in the table plus one.
InsertPuzzleAtMaxRowid(tables, record) ==
    LET ids == {p.id : p \in tables.puzzles}
        top == IF ids = {} THEN 0 ELSE CHOOSE i \in ids : \A k \in ids : k <= i
    IN  IF \E p \in tables.puzzles : p.uhp = record.uhp THEN tables
        ELSE [tables EXCEPT
                !.puzzles = @ \cup
                    {[id |-> top + 1, uhp |-> record.uhp,
                      solution |-> record.solution, ply |-> record.ply,
                      title |-> record.title, author |-> record.author,
                      to_move |-> record.to_move]},
                !.puzzle_seq = IF top + 1 > @ THEN top + 1 ELSE @]

\* INSERT INTO puzzles ... ON CONFLICT(uhp) DO UPDATE SET the columns of
\* the record.
InsertPuzzleOrUpdate(tables, record) ==
    IF \E p \in tables.puzzles : p.uhp = record.uhp
    THEN [tables EXCEPT
            !.puzzles = {IF p.uhp = record.uhp
                         THEN [p EXCEPT !.solution = record.solution,
                                        !.ply = record.ply]
                         ELSE p : p \in @}]
    ELSE [tables EXCEPT
            !.puzzles = @ \cup
                {[id |-> tables.puzzle_seq + 1, uhp |-> record.uhp,
                  solution |-> record.solution, ply |-> record.ply,
                  title |-> record.title, author |-> record.author,
                  to_move |-> record.to_move]},
            !.puzzle_seq = @ + 1]

\* INSERT INTO puzzles into a table whose uhp column is not UNIQUE.
InsertPuzzleWithoutUnique(tables, record) ==
    [tables EXCEPT
        !.puzzles = @ \cup
            {[id |-> tables.puzzle_seq + 1, uhp |-> record.uhp,
              solution |-> record.solution, ply |-> record.ply,
              title |-> record.title, author |-> record.author,
              to_move |-> record.to_move]},
        !.puzzle_seq = @ + 1]

\* INSERT INTO puzzles ... ON CONFLICT(uhp) DO NOTHING for one record: the
\* new row takes the next AUTOINCREMENT id.
InsertPuzzle(tables, record) ==
    IF \E p \in tables.puzzles : p.uhp = record.uhp THEN tables
    ELSE [tables EXCEPT
            !.puzzles = @ \cup
                {[id |-> tables.puzzle_seq + 1, uhp |-> record.uhp,
                  solution |-> record.solution, ply |-> record.ply,
                  title |-> record.title, author |-> record.author,
                  to_move |-> record.to_move]},
            !.puzzle_seq = @ + 1]

\* executemany over the first `done` records.
RECURSIVE InsertPuzzles(_, _, _)
InsertPuzzles(tables, records, done) ==
    IF done = 0 THEN tables
    ELSE InsertPuzzle(InsertPuzzles(tables, records, done - 1), records[done])

\* An import as it ends: imported is what upsert_puzzles returned, skipped
\* is skipped_existing, inserted the number of rows its executemany added.
ImportCall(status, imported, skipped, inserted) ==
    [NoCall EXCEPT !.op = "upsert_puzzles", !.status = status,
                   !.imported = imported, !.skipped = skipped,
                   !.inserted = inserted]

\* [(idx, line) for idx, line in enumerate(all_lines, start=1) if line.strip()]
\* for the first n lines.
RECURSIVE NonEmptyUpTo(_, _)
NonEmptyUpTo(all_lines, n) ==
    IF n = 0 THEN <<>>
    ELSE IF Strip(all_lines[n]) = <<>> THEN NonEmptyUpTo(all_lines, n - 1)
    ELSE Append(NonEmptyUpTo(all_lines, n - 1),
                [line_num |-> n, line |-> all_lines[n]])

NonEmptyLines(all_lines) == NonEmptyUpTo(all_lines, Len(all_lines))

\* add_command: the parse loop. Every non-empty line goes to the parser;
\* the records go to parsed and the reasons to failures, each with the
\* number of its line.
RECURSIVE ParsedLines(_)
ParsedLines(non_empty) ==
    IF non_empty = <<>> THEN <<>>
    ELSE LET front == ParsedLines(SubSeq(non_empty, 1, Len(non_empty) - 1))
             entry == non_empty[Len(non_empty)]
             result == parse_csv_line_detailed(entry.line)
         IN  IF result.record = NULL THEN front
             ELSE Append(front, [line_num |-> entry.line_num,
                                 record |-> result.record[1]])

RECURSIVE FailedLines(_)
FailedLines(non_empty) ==
    IF non_empty = <<>> THEN <<>>
    ELSE LET front == FailedLines(SubSeq(non_empty, 1, Len(non_empty) - 1))
             entry == non_empty[Len(non_empty)]
             result == parse_csv_line_detailed(entry.line)
         IN  IF result.record # NULL THEN front
             ELSE Append(front,
                    [line_num |-> entry.line_num,
                     reason |-> IF result.reason = NULL THEN "moves"
                                ELSE result.reason[1]])

\* add_command: the line numbers of the records whose uhp an earlier record
\* of the upload has.
RECURSIVE DuplicateLines(_)
DuplicateLines(parsed) ==
    IF parsed = <<>> THEN <<>>
    ELSE LET front == SubSeq(parsed, 1, Len(parsed) - 1)
             entry == parsed[Len(parsed)]
         IN  IF \E k \in 1..Len(front) : front[k].record.uhp = entry.record.uhp
             THEN Append(DuplicateLines(front), entry.line_num)
             ELSE DuplicateLines(front)

\* add_command before it reads the store: the lines are counted and
\* parsed and the records deduplicated.
ReadUpload(all_lines) ==
    LET non_empty == NonEmptyLines(all_lines)
        parsed == ParsedLines(non_empty)
        records == [i \in 1..Len(parsed) |-> parsed[i].record]
    IN  [non_empty |-> Len(non_empty), parsed |-> records,
         failures |-> FailedLines(non_empty),
         duplicate_lines |-> DuplicateLines(parsed),
         deduped |-> Deduped(records)]

\* The attachments of all specifications, each with what add_command
\* reads from it.
Attachments == Uploads \cup {SeedUpload} \cup IdUploads \cup UploadTexts
Readings == [all_lines \in Attachments |-> ReadUpload(all_lines)]

\* add_command up to upsert_puzzles, for the lines all_lines of the
\* attachment and what was read from them: the uhps already stored are
\* read after the upload; for an empty list upsert_puzzles returns 0 at
\* once.
AddRecords(t, all_lines, read) ==
    LET new_records == NewRecords(read.deduped, ExistingUhp(read.deduped))
        skipped_existing == Len(read.deduped) - Len(new_records)
        heard == [NoCall EXCEPT !.op = "add_command", !.text = all_lines]
    IN  /\ FreeSlot(t)
        /\ IF read.non_empty > LineCap
           THEN /\ tasks' = [tasks EXCEPT ![t] = Idle]
                /\ last' = [heard EXCEPT !.status = "too many lines"]
           ELSE IF read.parsed = <<>>
           THEN /\ tasks' = [tasks EXCEPT ![t] = Idle]
                /\ last' = [heard EXCEPT !.status = "nothing parsed",
                                         !.failures = read.failures]
           ELSE IF new_records = <<>>
           THEN /\ tasks' = [tasks EXCEPT ![t] = Idle]
                /\ last' = [ImportCall("imported", 0, skipped_existing, 0)
                                EXCEPT !.upload = read.parsed,
                                       !.text = all_lines,
                                       !.failures = read.failures,
                                       !.duplicate_lines = read.duplicate_lines]
           ELSE /\ tasks' = [tasks EXCEPT ![t] =
                        [Idle EXCEPT !.pc = "add_count_before",
                                     !.records = new_records,
                                     !.skipped = skipped_existing,
                                     !.text = all_lines,
                                     !.failures = read.failures,
                                     !.duplicate_lines = read.duplicate_lines]]
                /\ last' = [NoCall EXCEPT !.op = "existing_uhp",
                                          !.upload = read.parsed,
                                          !.text = all_lines,
                                          !.failures = read.failures,
                                          !.duplicate_lines = read.duplicate_lines,
                                          !.skipped = skipped_existing]
        /\ UNCHANGED <<tx, puzzles, puzzle_seq, user_puzzles, message_puzzles,
                       clock, next_message, post_cooldowns, session, reactions>>

AddCommand(t, all_lines) == AddRecords(t, all_lines, Readings[all_lines])

\* upsert_puzzles: SELECT COUNT(*) FROM puzzles, before the insert.
AddCountBefore(t) ==
    /\ tasks[t].pc = "add_count_before"
    /\ tasks' = [tasks EXCEPT ![t].pc = "add_insert",
                              ![t].before = Cardinality(puzzles)]
    /\ last' = NoCall
    /\ UNCHANGED <<tx, puzzles, puzzle_seq, user_puzzles, message_puzzles,
                   clock, next_message, post_cooldowns, session, reactions>>

\* The records of an executemany whose ply an INTEGER column cannot hold.
Unbound(records) ==
    {i \in 1..Len(records) : records[i].ply # NULL
                                /\ records[i].ply[1] > MaxInteger}

\* upsert_puzzles: executemany runs over all the records in one call.
AddInsert(t) ==
    LET after == InsertPuzzles(Tables, tasks[t].records, Len(tasks[t].records)) IN
    /\ tasks[t].pc = "add_insert"
    /\ Unbound(tasks[t].records) = {}
    /\ Store(after)
    /\ tx' = Begun
    /\ tasks' = [tasks EXCEPT
            ![t].pc = "add_commit",
            ![t].inserted = Cardinality(after.puzzles \ puzzles)]
    /\ last' = NoCall
    /\ UNCHANGED <<clock, next_message, post_cooldowns, session, reactions>>

\* upsert_puzzles: executemany raises a store error after `done` records.
\* The rows inserted so far stay in the open transaction; add_command
\* reports the failure and returns, and nothing rolls back.
AddInsertFails(t, done) ==
    LET after == InsertPuzzles(Tables, tasks[t].records, done) IN
    /\ tasks[t].pc = "add_insert"
    /\ done < Len(tasks[t].records)
    /\ Store(after)
    /\ tx' = Begun
    /\ tasks' = [tasks EXCEPT ![t] = Idle]
    /\ last' = ImportCall("failed", 0, tasks[t].skipped,
                          Cardinality(after.puzzles \ puzzles))
    /\ UNCHANGED <<clock, next_message, post_cooldowns, session, reactions>>

\* upsert_puzzles: executemany raises OverflowError at the first record
\* whose ply is too large to bind. The rows of the records before it stay
\* in the open transaction; add_command reports a database error and
\* returns.
AddOverflow(t) ==
    LET unbound == Unbound(tasks[t].records)
        first == CHOOSE i \in unbound : \A k \in unbound : i <= k
        after == InsertPuzzles(Tables, tasks[t].records, first - 1)
    IN  /\ tasks[t].pc = "add_insert"
        /\ unbound # {}
        /\ Store(after)
        /\ tx' = Begun
        /\ tasks' = [tasks EXCEPT ![t] = Idle]
        /\ last' = [ImportCall("failed", 0, tasks[t].skipped,
                               Cardinality(after.puzzles \ puzzles))
                        EXCEPT !.text = tasks[t].text,
                               !.upload = tasks[t].records,
                               !.failures = tasks[t].failures,
                               !.duplicate_lines = tasks[t].duplicate_lines]
        /\ UNCHANGED <<clock, next_message, post_cooldowns, session, reactions>>

\* upsert_puzzles: conn.commit().
AddCommit(t) ==
    /\ tasks[t].pc = "add_commit"
    /\ tx' = NULL
    /\ tasks' = [tasks EXCEPT ![t].pc = "add_count_after"]
    /\ last' = NoCall
    /\ UNCHANGED <<puzzles, puzzle_seq, user_puzzles, message_puzzles, clock,
                   next_message, post_cooldowns, session, reactions>>

\* upsert_puzzles: SELECT COUNT(*) FROM puzzles after the commit, and
\* return max(after_count - before_count, 0); add_command reports it.
AddCountAfter(t) ==
    LET delta == Cardinality(puzzles) - tasks[t].before IN
    /\ tasks[t].pc = "add_count_after"
    /\ tasks' = [tasks EXCEPT ![t] = Idle]
    /\ last' = [ImportCall("imported", IF delta > 0 THEN delta ELSE 0,
                           tasks[t].skipped, tasks[t].inserted)
                    EXCEPT !.text = tasks[t].text,
                           !.failures = tasks[t].failures,
                           !.duplicate_lines = tasks[t].duplicate_lines]
    /\ UNCHANGED <<tx, puzzles, puzzle_seq, user_puzzles, message_puzzles,
                   clock, next_message, post_cooldowns, session, reactions>>

\* --------------------------------------------------------- specifications
\* Spec: two handlers in flight, every interleaving of their steps:
\* /puzzle without ply bounds, /show_me, /post and the solved reaction.
Next ==
    \/ \E t \in Tasks, u \in Users : PuzzleCommand(t, u, NULL, NULL)
    \/ \E t \in Tasks, u \in Users, p \in PuzzleIds : ShowMeCommand(t, u, p)
    \/ \E t \in Tasks : DeliverSend(t)
    \/ \E t \in Tasks : DeliverFails(t)
    \/ \E t \in Tasks : DeliverRecord(t)
    \/ \E t \in Tasks, u \in Users, p \in PuzzleIds : PostRejected(t, u, p)
    \/ \E t \in Tasks, u \in Users, p \in PuzzleIds : PostCommand(t, u, p)
    \/ \E t \in Tasks : PostSend(t)
    \/ \E t \in Tasks : PostRecord(t)
    \/ \E t \in Tasks : PostFails(t)
    \/ \E t \in Tasks : PostMap(t)
    \/ \E t \in Tasks, u \in Users, m \in MessageIds :
            ReactionEvent(t, u, m, "check", TRUE)
    \/ \E t \in Tasks : ReactionFallback(t)
    \/ \E t \in Tasks : ReactionMaterialize(t)
    \/ \E t \in Tasks, f \in BOOLEAN, c \in BOOLEAN, up \in BOOLEAN, dn \in BOOLEAN :
            ReactionApply(t, f, c, up, dn)

Spec == Init /\ [][Next]_vars

\* DeliverySpec: one handler at a time, with the clock: deliveries by
\* /puzzle, /show_me and /post, and the reactions that set solved and liked.
DeliveryNext ==
    \/ \E u \in Users : PuzzleCommand(1, u, NULL, NULL)
    \/ \E u \in Users, p \in PuzzleIds : ShowMeCommand(1, u, p)
    \/ DeliverSend(1)
    \/ DeliverRecord(1)
    \/ \E u \in Users, p \in PuzzleIds : PostRejected(1, u, p)
    \/ \E u \in Users, p \in PuzzleIds : PostCommand(1, u, p)
    \/ PostSend(1)
    \/ PostRecord(1)
    \/ PostMap(1)
    \/ \E u \in Users, m \in MessageIds, e \in {"check", "up"} :
            ReactionEvent(1, u, m, e, TRUE)
    \/ ReactionFallback(1)
    \/ ReactionMaterialize(1)
    \/ \E f \in BOOLEAN, c \in BOOLEAN, up \in BOOLEAN, dn \in BOOLEAN :
            ReactionApply(1, f, c, up, dn)
    \/ Tick

DeliverySpec == Init /\ [][DeliveryNext]_vars

\* LikeSpec: one handler at a time: /show_me deliveries, the like and
\* dislike reactions added and removed, and update_like with any argument.
LikeNext ==
    \/ \E u \in Users, p \in PuzzleIds : ShowMeCommand(1, u, p)
    \/ DeliverSend(1)
    \/ DeliverRecord(1)
    \/ \E u \in Users, m \in MessageIds, e \in {"up", "down"}, a \in BOOLEAN :
            ReactionEvent(1, u, m, e, a)
    \/ ReactionFallback(1)
    \/ \E f \in BOOLEAN, c \in BOOLEAN, up \in BOOLEAN, dn \in BOOLEAN :
            ReactionApply(1, f, c, up, dn)
    \/ \E u \in Users, p \in PuzzleIds, x \in LikeArgs : SetLiked(u, p, x)

LikeSpec == Init /\ [][LikeNext]_vars

\* SessionSpec: over any catalog, each user's /puzzle commands without ply
\* bounds, one after the other, each delivered and recorded before the
\* next; session[u] is the sequence of the selections made for u.
SessionCommand(user_id) ==
    /\ Len(session[user_id]) < MaxRounds
    /\ \E result \in select_puzzle_for_user(user_id, NULL, NULL) :
        /\ PuzzleSelect(1, user_id, NULL, NULL, result)
        /\ session' = [session EXCEPT ![user_id] = Append(@, result)]
        /\ UNCHANGED reactions

SessionSend == SendFirst(1, MaxRounds) /\ UNCHANGED <<session, reactions>>

SessionNext ==
    \/ \E u \in Users : SessionCommand(u)
    \/ SessionSend
    \/ DeliverRecord(1)

SessionSpec == SelectInit /\ [][SessionNext]_vars

\* SelectSpec: one handler at a time; /puzzle with every combination of ply
\* bounds over catalogs with every combination of plys, and solve toggles.
SelectNext ==
    \/ \E u \in Users, lo \in Nullable(Plys), hi \in Nullable(Plys) :
            PuzzleCommand(1, u, lo, hi)
    \/ DeliverSend(1)
    \/ DeliverRecord(1)
    \/ \E u \in Users, p \in PuzzleIds, b \in BOOLEAN : SetSolved(u, p, b)

SelectSpec == SelectInit /\ [][SelectNext]_vars

AllIds == 1..MaxIds

AdminPcs ==
    {"delete_count_users", "delete_count_messages", "delete_script",
     "delete_rollback", "add_count_before", "add_insert", "add_commit",
     "add_count_after"}

\* An administrator's handler (/delete, /add) is in flight.
AdminBusy == \E t \in Tasks : tasks[t].pc \in AdminPcs

\* A user's handler (/show_me, /post, a reaction) is in flight.
UserBusy == \E t \in Tasks : tasks[t].pc \notin AdminPcs \cup {"idle"}

\* DeleteSpec: one handler of an administrator (/delete, /add) and one of a
\* user (/show_me, /post, the solved reaction) in flight, every
\* interleaving of their steps.
DeleteNext ==
    \/ \E t \in Tasks, p \in AllIds : ~ AdminBusy /\ DeleteCommand(t, p)
    \/ \E t \in Tasks : DeleteCountUsers(t)
    \/ \E t \in Tasks : DeleteCountMessages(t)
    \/ \E t \in Tasks : DeleteScript(t)
    \/ \E t \in Tasks :
            ~ AdminBusy /\ puzzle_seq < MaxIds /\ AddCommand(t, SeedUpload)
    \/ \E t \in Tasks : AddCountBefore(t)
    \/ \E t \in Tasks : AddInsert(t)
    \/ \E t \in Tasks : AddCommit(t)
    \/ \E t \in Tasks : AddCountAfter(t)
    \/ \E t \in Tasks, p \in AllIds :
            ~ UserBusy /\ ShowMeCommand(t, "u1", p)
    \/ \E t \in Tasks : DeliverSend(t)
    \/ \E t \in Tasks : DeliverRecord(t)
    \/ \E t \in Tasks, p \in AllIds :
            ~ UserBusy /\ PostCommand(t, "u2", p)
    \/ \E t \in Tasks : PostSend(t)
    \/ \E t \in Tasks : PostRecord(t)
    \/ \E t \in Tasks : PostMap(t)
    \/ \E t \in Tasks, u \in Users, m \in MessageIds :
            ~ UserBusy /\ ReactionEvent(t, u, m, "check", TRUE)
    \/ \E t \in Tasks : ReactionFallback(t)
    \/ \E t \in Tasks : ReactionMaterialize(t)
    \/ \E t \in Tasks, f \in BOOLEAN, c \in BOOLEAN, up \in BOOLEAN, dn \in BOOLEAN :
            ReactionApply(t, f, c, up, dn)

DeleteSpec == Init /\ [][DeleteNext]_vars

\* A /delete that can fail, beside one handler that writes: the statement
\* and the commit of a write are separate requests to the connection. The
\* writes are those of one user about the first puzzle.
TxCalls ==
    {RecordCall("u1", 1, 1), SolvedCall("u1", 1, TRUE),
     LikeCall("u1", 1, Some(1)), TitleCall(1, Some("title")),
     [MappingCall(1, 2) EXCEPT !.user = "u2"]}

TxNext ==
    \/ \E t \in Tasks, p \in PuzzleIds : ~ AdminBusy /\ DeleteCommand(t, p)
    \/ \E t \in Tasks : DeleteCountUsers(t)
    \/ \E t \in Tasks : DeleteCountMessages(t)
    \/ \E t \in Tasks : DeleteScript(t)
    \/ \E t \in Tasks, done \in 0..2, auto \in BOOLEAN :
            DeleteScriptFails(t, done, auto)
    \/ \E t \in Tasks : DeleteRollback(t)
    \/ \E t \in Tasks, call \in TxCalls : ~ UserBusy /\ CallStatement(t, call)
    \/ \E t \in Tasks : CallCommit(t)

TxSpec == Init /\ [][TxNext]_vars

\* Two /add uploads in flight beside one /delete.
AddPcs == {"add_count_before", "add_insert", "add_commit", "add_count_after"}

ImportNext ==
    \/ \E t \in Tasks, upload \in Uploads :
            puzzle_seq < MaxIds /\ AddCommand(t, upload)
    \/ \E t \in Tasks : AddCountBefore(t)
    \/ \E t \in Tasks : AddInsert(t)
    \/ \E t \in Tasks, done \in 0..1 : AddInsertFails(t, done)
    \/ \E t \in Tasks : AddCommit(t)
    \/ \E t \in Tasks : AddCountAfter(t)
    \/ \E t \in Tasks, p \in AllIds :
            (\A o \in Tasks : tasks[o].pc \in AddPcs \cup {"idle"})
            /\ DeleteCommand(t, p)
    \/ \E t \in Tasks : DeleteCountUsers(t)
    \/ \E t \in Tasks : DeleteCountMessages(t)
    \/ \E t \in Tasks : DeleteScript(t)

ImportSpec == Init /\ [][ImportNext]_vars

\* The store's operations on message mappings called one after the other,
\* beside a /delete, deliveries to one user and that user's solved toggle.
Channels == {"c1", "c2"}

MappingNext ==
    \/ \E p \in PuzzleIds, m \in MessageIds, c \in Channels, u \in Users :
            MapMessage(p, m, c, u)
    \/ \E p \in PuzzleIds : RecordMessage("u1", p, 1)
    \/ \E p \in PuzzleIds, b \in BOOLEAN : SetSolved("u1", p, b)
    \/ \E p \in PuzzleIds : DeleteCommand(1, p)
    \/ DeleteCountUsers(1)
    \/ DeleteCountMessages(1)
    \/ DeleteScript(1)

MappingSpec == Init /\ [][MappingNext]_vars

\* An /add beside a /delete that can fail, a /title and a delivery: the
\* operations that insert, remove or rewrite rows of the catalog.
IdCalls == {TitleCall(1, Some("title")), RecordCall("u1", 1, 1)}

IdNext ==
    \/ \E t \in Tasks, upload \in IdUploads :
            puzzle_seq < MaxIds /\ ~ AdminBusy /\ AddCommand(t, upload)
    \/ \E t \in Tasks : AddCountBefore(t)
    \/ \E t \in Tasks : AddInsert(t)
    \/ \E t \in Tasks : AddCommit(t)
    \/ \E t \in Tasks : AddCountAfter(t)
    \/ \E t \in Tasks, p \in AllIds :
            (\A o \in Tasks : tasks[o].pc \in AddPcs \cup {"idle", "call_commit"})
            /\ DeleteCommand(t, p)
    \/ \E t \in Tasks : DeleteCountUsers(t)
    \/ \E t \in Tasks : DeleteCountMessages(t)
    \/ \E t \in Tasks : DeleteScript(t)
    \/ \E t \in Tasks, done \in 0..2, auto \in BOOLEAN :
            DeleteScriptFails(t, done, auto)
    \/ \E t \in Tasks : DeleteRollback(t)
    \/ \E t \in Tasks, call \in IdCalls : ~ UserBusy /\ CallStatement(t, call)
    \/ \E t \in Tasks : CallCommit(t)

IdSpec == Init /\ [][IdNext]_vars

\* The store's operations on interaction rows called one after the other
\* while time passes: deliveries, the solved toggle and an upvote.
SolvedNext ==
    \/ \E u \in Users, p \in PuzzleIds : RecordMessage(u, p, 1)
    \/ \E u \in Users, p \in PuzzleIds, b \in BOOLEAN : SetSolved(u, p, b)
    \/ \E p \in PuzzleIds : SetLiked("u1", p, Some(1))
    \/ Tick

SolvedSpec == Init /\ [][SolvedNext]_vars

\* A /stats of u1 beside a /delete, with deliveries, solved toggles and
\* votes made between the handlers' steps.
StatsNext ==
    \/ \E t \in Tasks : StatsCount(t, "u1")
    \/ \E t \in Tasks : StatsAggregate(t)
    \/ \E p \in PuzzleIds : RecordMessage("u1", p, 1)
    \/ RecordMessage("u2", 1, 1)
    \/ \E p \in PuzzleIds : SetSolved("u1", p, TRUE)
    \/ SetLiked("u1", 1, Some(1))
    \/ SetLiked("u1", 2, Some(-1))
    \/ \E t \in Tasks, p \in PuzzleIds : ~ AdminBusy /\ DeleteCommand(t, p)
    \/ \E t \in Tasks : DeleteCountUsers(t)
    \/ \E t \in Tasks : DeleteCountMessages(t)
    \/ \E t \in Tasks : DeleteScript(t)

StatsSpec == Init /\ [][StatsNext]_vars

\* PostSpec: /post alone with the clock: two handlers in flight, every
\* interleaving of their steps, sends that fail, and time passing from one
\* of Instants to a later one.
PostNext ==
    \/ \E t \in Tasks, u \in Users, p \in PuzzleIds : PostRejected(t, u, p)
    \/ \E t \in Tasks, u \in Users, p \in PuzzleIds : PostCommand(t, u, p)
    \/ \E t \in Tasks : PostSend(t)
    \/ \E t \in Tasks : PostRecord(t)
    \/ \E t \in Tasks : PostFails(t)
    \/ \E t \in Tasks : PostMap(t)
    \/ Elapse

PostSpec == Init /\ [][PostNext]_vars

\* ReactSpec: the votes of a user on the message of a delivery, with the
\* reactions the platform holds: one puzzle is delivered to one user by
\* /show_me; the user adds and removes the like and the dislike reaction
\* on the message once its delivery is recorded; two handlers are in
\* flight, in every interleaving of their steps; fetching the message and
\* removing a reaction may fail.
NothingDelivered ==
    /\ user_puzzles = {}
    /\ \A t \in Tasks : tasks[t].pc = "idle"

Recorded(user_id, message) ==
    lookup_puzzle_by_message(user_id, message) # {}

ReactNext ==
    \/ \E t \in Tasks, u \in Users, p \in PuzzleIds :
            NothingDelivered /\ ShowMeCommand(t, u, p)
    \/ \E t \in Tasks : DeliverSend(t)
    \/ \E t \in Tasks : DeliverRecord(t)
    \/ \E t \in Tasks, u \in Users, m \in MessageIds, e \in {"up", "down"} :
            Recorded(u, m) /\ React(t, u, m, e)
    \/ \E t \in Tasks, u \in Users, m \in MessageIds, e \in {"up", "down"} :
            Recorded(u, m) /\ Unreact(t, u, m, e)
    \/ \E t \in Tasks, fetched \in BOOLEAN : ReactionFetched(t, fetched)
    \/ \E t \in Tasks, removed \in BOOLEAN : ReactionClear(t, removed)

ReactSpec == Init /\ [][ReactNext]_vars

\* BotSpec: /post and the like reactions of the users, added and removed,
\* one handler at a time, and beside it, from the moment a message is
\* sent, the events of the bot's own reactions on it.
BotNext ==
    \/ \E u \in Users, p \in PuzzleIds : PostCommand(1, u, p)
    \/ PostSend(1)
    \/ PostRecord(1)
    \/ PostMap(1)
    \/ \E t \in Tasks, m \in MessageIds, e \in {"check", "up"}, a \in BOOLEAN :
            OwnReaction(t, m, e, a)
    \/ \E u \in Users, m \in MessageIds, a \in BOOLEAN :
            ReactionEvent(1, u, m, "up", a)
    \/ ReactionFallback(1)
    \/ ReactionMaterialize(1)
    \/ \E f \in BOOLEAN, c \in BOOLEAN, up \in BOOLEAN, dn \in BOOLEAN :
            ReactionApply(1, f, c, up, dn)

BotSpec == Init /\ [][BotNext]_vars

\* The parser alone, on every line made of a head and of up to MaxBody
\* further pieces, and on some longer lines.
MaxBody == 5
BodyPieces == {"wS1", "3", Superscript, " ", ";"}
Bodies == UNION {[1..n -> BodyPieces] : n \in 0..MaxBody}
Heads ==
    {<<>>, <<"Base">>, <<"Base", ";">>, <<"3", ";">>,
     <<"Base", ";", "InProgress", ";">>,
     <<" ", "Base", ";", "InProgress", ";", "White[3]">>,
     <<"Base", ";", "InProgress", ";", "White[3]", ";">>,
     <<"Base", ";", "INPROGRESS", " ", ";", " ", "BLACK", ";">>}
\* The line of the Mzinga trainer file that the parser's contract quotes.
TrainerLine ==
    <<"Base", ";", "InProgress", ";", "White[3]", ";", "wS1", ";", "bS1", ";",
      "wQ", " ", "3", " ", "wQ-bS1">>
LongLines ==
    {TrainerLine,
     <<"Base", ";", "wS1", "\t", "0", "3", " ", " ", "wQ-bS1", "\t", "wQ">>,
     <<"Base", ";", "wS1", " ", " ", "bS1", ";", "1", ";", ";", "wQ", ";">>,
     <<"Base", ";", "wS1", " ", TooLong, " ", "wQ-bS1">>,
     <<"Base", ";", "wS1", " ", "1", "wQ", " ", "1", " ", "wQ-bS1">>}
Lines == {head \o body : head \in Heads, body \in Bodies} \cup LongLines

ParseInit ==
    \E line \in Lines :
        /\ puzzles = {}
        /\ puzzle_seq = 0
        /\ user_puzzles = {}
        /\ message_puzzles = {}
        /\ clock = 0
        /\ next_message = 1
        /\ post_cooldowns = [u \in Users |-> NULL]
        /\ tasks = [t \in Tasks |-> Idle]
        /\ last = [NoCall EXCEPT !.op = "line", !.text = <<line>>]
        /\ session = [u \in Users |-> <<>>]
        /\ reactions = {}
        /\ tx = NULL

ParseNext == ParseLine

ParseSpec == ParseInit /\ [][ParseNext]_vars

\* /add alone, one upload after the other, and no store error but the one
\* a ply brings about. The first upload after the store is opened is any of
\* UploadTexts, with up to MaxLines lines or over the cap; the uploads that
\* follow are those of LaterUploads.
LaterUploads ==
    {<<SameUhpLine, FirstLine>>, <<OtherLine, NoMovesLine, FirstLine>>,
     <<OtherLine, OverflowLine, OtherLine>>}

UploadNext ==
    \/ \E t \in Tasks, all_lines \in UploadTexts :
            /\ ~ AdminBusy
            /\ last.op = "none" \/ all_lines \in LaterUploads
            /\ AddCommand(t, all_lines)
    \/ \E t \in Tasks : AddCountBefore(t)
    \/ \E t \in Tasks : AddInsert(t)
    \/ \E t \in Tasks : AddOverflow(t)
    \/ \E t \in Tasks : AddCommit(t)
    \/ \E t \in Tasks : AddCountAfter(t)

UploadSpec == Init /\ [][UploadNext]_vars

\* /title alone: two requests in flight, for the puzzles of the catalog and
\* for an id that is not in it, with titles of up to MaxTitle pieces, each a
\* blank, a letter or a word of TitleLimit characters, or with no title.
MaxTitle == 2
TitlePieces == {" ", "a", LongWord}
Titles == UNION {[1..n -> TitlePieces] : n \in 0..MaxTitle}

TitleNext ==
    \/ \E t \in Tasks, p \in AllIds, title \in Nullable(Titles) :
            TitleCommand(t, p, title)
    \/ \E t \in Tasks : CallCommit(t)

TitleSpec == Init /\ [][TitleNext]_vars

\* ------------------------------------------------------------------ claims
\* The ply filter as the specification states it: min_ply excludes a NULL
\* ply and plys below it; max_ply excludes the plys above it and no NULL.
MatchesBounds(ply, min_ply, max_ply) ==
    /\ min_ply # NULL => (ply # NULL /\ ply[1] >= min_ply[1])
    /\ max_ply # NULL => (ply = NULL \/ ply[1] <= max_ply[1])

Matching(min_ply, max_ply) ==
    {p \in puzzles : MatchesBounds(p.ply, min_ply, max_ply)}

HasRow(user_id, puzzle_id) ==
    \E up \in user_puzzles : up.user_id = user_id /\ up.puzzle_id = puzzle_id

HasUnsolvedRow(user_id, puzzle_id) ==
    \E up \in user_puzzles :
        up.user_id = user_id /\ up.puzzle_id = puzzle_id /\ up.solved_at = NULL

HasSolvedRow(user_id, puzzle_id) ==
    \E up \in user_puzzles :
        up.user_id = user_id /\ up.puzzle_id = puzzle_id /\ up.solved_at # NULL

\* The latest step was a call of select_puzzle_for_user; the store is as
\* the call read it.
Selecting == last.op = "select_puzzle_for_user"

\* C1: whenever a puzzle matching the ply bounds has no Interaction row for
\* the user, select returns status new and a puzzle with no row for the user.
C1_UnseenIsSelectedAsNew ==
    (/\ Selecting
     /\ \E p \in Matching(last.min_ply, last.max_ply) : ~ HasRow(last.user, p.id))
    => (last.status = "new" /\ ~ HasRow(last.user, last.puzzle))

\* C3: whenever no puzzle matching the bounds is unseen for the user and some
\* matching puzzle has a row of the user with solved_at NULL, select returns
\* status unsolved and a puzzle whose row for the user has solved_at NULL.
C3_UnsolvedIsSelectedNext ==
    (/\ Selecting
     /\ \A p \in Matching(last.min_ply, last.max_ply) : HasRow(last.user, p.id)
     /\ \E p \in Matching(last.min_ply, last.max_ply) :
            HasUnsolvedRow(last.user, p.id))
    => (last.status = "unsolved" /\ HasUnsolvedRow(last.user, last.puzzle))

\* C4: with a non-empty catalog of which the user has solved every puzzle,
\* select without bounds returns all_solved; and all_solved is returned only
\* when every puzzle matching the filter has a solved row of the user.
C4_AllSolvedExactly ==
    /\ (/\ Selecting
        /\ last.min_ply = NULL /\ last.max_ply = NULL
        /\ puzzles # {}
        /\ \A p \in puzzles : HasSolvedRow(last.user, p.id))
       => last.status = "all_solved"
    /\ (Selecting /\ last.status = "all_solved")
       => \A p \in Matching(last.min_ply, last.max_ply) :
                HasSolvedRow(last.user, p.id)

\* C5: select returns none exactly when no catalog puzzle matches the ply
\* filter, and a returned puzzle matches the filter.
C5_NoneIffNothingMatches ==
    Selecting =>
        /\ last.status = "none" <=> Matching(last.min_ply, last.max_ply) = {}
        /\ last.status # "none" =>
                \E p \in Matching(last.min_ply, last.max_ply) : p.id = last.puzzle

\* C6: with max_ply alone a catalog that holds only NULL-ply puzzles yields
\* one of them, not none.
C6_MaxPlyAloneKeepsNullPly ==
    (/\ Selecting
     /\ last.min_ply = NULL /\ last.max_ply # NULL
     /\ puzzles # {}
     /\ \A p \in puzzles : p.ply = NULL)
    => \E p \in puzzles : p.id = last.puzzle /\ p.ply = NULL

\* C2: in a session that starts without rows over a catalog of n puzzles,
\* the user's selections number i <= n are new and pairwise distinct, and
\* every selection after them has a status other than new.
C2_SessionVisitsEachPuzzleOnce ==
    \A u \in Users :
        \A i \in 1..Len(session[u]) :
            /\ session[u][i].status = "new" <=> i <= Cardinality(puzzles)
            /\ \A j \in 1..Len(session[u]) :
                    (i < j /\ j <= Cardinality(puzzles))
                        => session[u][i].puzzle # session[u][j].puzzle

\* A user has been given both puzzles of a catalog of two as new, and a
\* third selection after them.
C2_Witness ==
    \E u \in Users :
        /\ Cardinality(puzzles) = 2
        /\ Len(session[u]) = 3
        /\ {session[u][1].puzzle, session[u][2].puzzle} = {1, 2}
        /\ session[u][3].status = "unsolved"

\* The rows of one user for one puzzle, and all the other rows.
RowsOf(table, user_id, puzzle_id) ==
    {up \in table : up.user_id = user_id /\ up.puzzle_id = puzzle_id}

RowsBeside(table, user_id, puzzle_id) ==
    {up \in table : ~ (up.user_id = user_id /\ up.puzzle_id = puzzle_id)}

\* C7: a call record_message_for_user(U, P, m) for a catalog puzzle P
\* creates the row (U, P) with solved_at and liked NULL when there is none,
\* changes only attempted_at and message_id of the row when there is one,
\* and leaves every other row, the catalog and message_puzzles as they were.
C7_RecordDeliveryFrame ==
    [][(last'.op = "record_message_for_user" /\ ForeignKeyOk(last'.puzzle)) =>
        LET u == last'.user
            p == last'.puzzle
            m == ToText(last'.message)
            old == RowsOf(user_puzzles, u, p)
        IN  /\ old = {} => RowsOf(user_puzzles', u, p)
                                = {[user_id |-> u, puzzle_id |-> p,
                                    attempted_at |-> clock, solved_at |-> NULL,
                                    liked |-> NULL, message_id |-> m]}
            /\ \A row \in old :
                    RowsOf(user_puzzles', u, p)
                        = {[row EXCEPT !.attempted_at = clock, !.message_id = m]}
            /\ RowsBeside(user_puzzles', u, p) = RowsBeside(user_puzzles, u, p)
            /\ puzzles' = puzzles
            /\ message_puzzles' = message_puzzles]_vars

\* A second delivery has just been recorded, a second later, on a row that
\* is solved and liked, beside a row of another user and a message mapping.
C7_Witness ==
    /\ last.op = "record_message_for_user"
    /\ clock = 1
    /\ message_puzzles # {}
    /\ \E up \in user_puzzles :
        /\ up.user_id = last.user /\ up.puzzle_id = last.puzzle
        /\ up.message_id = ToText(last.message)
        /\ up.attempted_at = 1
        /\ up.solved_at = Some(0)
        /\ up.liked # NULL
    /\ \E up \in user_puzzles : up.user_id # last.user /\ up.attempted_at = 0

\* C8: under every interleaving of the delivery, post and reaction handlers
\* there is at most one row per (user, puzzle), and its message_id is the one
\* written by the latest record_message_for_user for that user and puzzle:
\* such a call leaves its message id in the row, and no other step changes it.
C8_OneRowLastWriteWins ==
    /\ [](\A a \in user_puzzles, b \in user_puzzles :
            (a.user_id = b.user_id /\ a.puzzle_id = b.puzzle_id) => a = b)
    /\ [][\A u \in Users, p \in PuzzleIds :
            LET before == {up.message_id : up \in RowsOf(user_puzzles, u, p)}
                after == {up.message_id : up \in RowsOf(user_puzzles', u, p)}
            IN  IF /\ last'.op = "record_message_for_user"
                   /\ last'.user = u /\ last'.puzzle = p
                   /\ ForeignKeyOk(p)
                THEN after = {ToText(last'.message)}
                ELSE after = before]_vars

\* Two deliveries of one puzzle to one user were in flight together: both
\* messages are sent and recorded, and the write that came last is the one
\* of the message sent first.
C8_Witness ==
    /\ last.op = "record_message_for_user"
    /\ last.message = 1
    /\ next_message = 3
    /\ \A t \in Tasks : tasks[t].pc = "idle"
    /\ message_puzzles = {}
    /\ Cardinality(user_puzzles) = 1
    /\ \A up \in user_puzzles :
        /\ up.user_id = last.user /\ up.puzzle_id = last.puzzle
        /\ up.message_id = ToText(1)

\* C9: every stored liked is +1, -1 or NULL, and update_like with an
\* argument that is neither +1 nor -1 (0, 2, None) leaves NULL in the row.
C9_LikedIsPolarityOrNull ==
    /\ \A up \in user_puzzles : up.liked \in Polarities \cup {NULL}
    /\ (last.op = "update_like" /\ last.liked \notin Polarities)
        => \A up \in RowsOf(user_puzzles, last.user, last.puzzle) :
                up.liked = NULL

\* update_like with 0 or 2 has just overwritten a stored vote.
C9_Witness ==
    /\ last.op = "update_like"
    /\ last.liked \in {Some(0), Some(2)}
    /\ last.prior \in Polarities
    /\ \E up \in RowsOf(user_puzzles, last.user, last.puzzle) : up.liked = NULL

\* C10: when update_like(U, P, x) for a polarity x and a user with a row for
\* P is followed by update_like(U, P, -x), U counts once in the total of -x
\* and not in the total of x, and the totals over the rows of the other
\* users are as before.
C10_OppositeVoteMovesTheUser ==
    [][(/\ last.op = "update_like"
        /\ last.liked \in Polarities
        /\ RowsOf(user_puzzles, last.user, last.puzzle) # {}
        /\ last'.op = "update_like"
        /\ last'.user = last.user /\ last'.puzzle = last.puzzle
        /\ last'.liked = Some(0 - last.liked[1])) =>
        LET u == last'.user
            p == last'.puzzle
            mine == {up \in user_puzzles' : up.user_id = u}
            others == {up \in user_puzzles' : up.user_id # u}
            others_before == {up \in user_puzzles : up.user_id # u}
            vote == IF last'.liked = Some(1) THEN <<1, 0>> ELSE <<0, 1>>
        IN  /\ vote_totals(mine, p) = vote
            /\ vote_totals(others, p) = vote_totals(others_before, p)
            /\ vote_totals(user_puzzles', p)[1] = vote_totals(others, p)[1] + vote[1]
            /\ vote_totals(user_puzzles', p)[2] = vote_totals(others, p)[2] + vote[2]]_vars

\* update_like(U, P, -1) has just overwritten the +1 of U, beside the vote
\* of another user on the same puzzle.
C10_Witness ==
    /\ last.op = "update_like"
    /\ last.liked = Some(-1)
    /\ last.prior = Some(1)
    /\ \E up \in RowsOf(user_puzzles, last.user, last.puzzle) : up.liked = Some(-1)
    /\ \E up \in user_puzzles :
        up.user_id # last.user /\ up.puzzle_id = last.puzzle /\ up.liked = Some(1)
    /\ vote_totals(user_puzzles, last.puzzle) = <<1, 1>>

\* The id was given to a puzzle and the catalog holds no puzzle with it.
Deleted(id) == id <= puzzle_seq /\ \A p \in puzzles : p.id # id

\* No row of the three tables carries the puzzle id.
GoneFrom(catalog, interactions, mappings, id) ==
    /\ \A p \in catalog : p.id # id
    /\ \A up \in interactions : up.puzzle_id # id
    /\ \A mp \in mappings : mp.puzzle_id # id

\* SELECT * FROM puzzles WHERE id = ?, selection for every user and bounds,
\* and both message resolutions give no puzzle with the id.
NeverReturned(id) ==
    /\ {p \in puzzles : p.id = id} = {}
    /\ \A u \in Users, lo \in Nullable(Plys), hi \in Nullable(Plys) :
            \A r \in select_puzzle_for_user(u, lo, hi) : r.puzzle # id
    /\ \A u \in Users, m \in MessageIds :
            \A p \in lookup_puzzle_by_message(u, m) : p.id # id
    /\ \A m \in MessageIds :
            \A p \in puzzle_for_message(ToText(m)) : p.id # id

\* C11: a delete_puzzle(id) that succeeds leaves no puzzle, user_puzzles or
\* message_puzzles row with the id; a deleted id never comes back into the
\* catalog; and while it is deleted neither get(id), nor select for any user
\* and bounds, nor the resolution of any message returns it.
C11_DeletedPuzzleIsGone ==
    /\ [][/\ (last'.op = "delete_puzzle" /\ last'.status = "deleted")
                => GoneFrom(puzzles', user_puzzles', message_puzzles',
                            last'.puzzle)
          /\ \A id \in AllIds : Deleted(id) => Deleted(id)']_vars
    /\ [](\A id \in AllIds : Deleted(id) => NeverReturned(id))

\* A delete has removed rows of both tables, and an import after it has
\* added a puzzle.
C11_Witness ==
    /\ \E id \in AllIds :
        /\ Deleted(id)
        /\ \E p \in puzzles : p.id > id
    /\ puzzle_seq = MaxIds
    /\ last.op = "delete_puzzle" /\ last.status = "deleted"
    /\ last.removed[1] >= 1 /\ last.removed[2] >= 1

\* C12: every user_puzzles row and every message_puzzles row references a
\* puzzle of the catalog, under every interleaving of a delete or an import
\* with a delivery, a post or a reaction.
C12_NoOrphanedRows ==
    /\ \A up \in user_puzzles : \E p \in puzzles : p.id = up.puzzle_id
    /\ \A mp \in message_puzzles : \E p \in puzzles : p.id = mp.puzzle_id

\* A handler read a puzzle, a delete removed it, and the handler's write for
\* it has just been refused.
C12_Witness ==
    /\ last.op = "record_message_for_user"
    /\ Deleted(last.puzzle)
    /\ \A up \in user_puzzles : up.puzzle_id # last.puzzle

\* Every row of `before` has a row with its key in `after`: nothing of
\* `before` was removed.
Keeps(before, after) ==
    /\ \A p \in before.puzzles : \E q \in after.puzzles : q.id = p.id
    /\ \A up \in before.user_puzzles : \E r \in after.user_puzzles :
            r.user_id = up.user_id /\ r.puzzle_id = up.puzzle_id
    /\ \A mp \in before.message_puzzles : \E r \in after.message_puzzles :
            r.message_id = mp.message_id /\ r.puzzle_id = mp.puzzle_id

\* C13: when the delete cascade fails at any of its steps, delete_puzzle
\* ends with the failure surfaced and with every puzzle, interaction and
\* message mapping that the tables held when the cascade began still there.
C13_FailedDeleteRemovesNothing ==
    [][\A t \in Tasks :
          tasks[t].pc = "delete_rollback" /\ tasks'[t].pc = "idle"
          => /\ last'.op = "delete_puzzle" /\ last'.status = "failed"
             /\ Keeps(tasks[t].began[1], Tables')]_vars

\* C14: delete_puzzle of an id that is not in the catalog returns not-found
\* and leaves the three tables unchanged; a delete_puzzle that succeeds
\* returns the numbers of interaction rows and of message-mapping rows that
\* its transaction removed, whatever other handlers did between its count
\* reads and the transaction.
C14_DeleteCountsWhatItRemoved ==
    [][last'.op = "delete_puzzle"
       => /\ last'.status = "not_found"
             => UNCHANGED <<puzzles, user_puzzles, message_puzzles>>
          /\ last'.status = "deleted" => last'.counts = last'.removed]_vars

\* The uhps of a sequence of records.
UhpsOf(records) == {records[i].uhp : i \in 1..Len(records)}

\* The existing-uhp check of an /add ran in the step.
Checked == last.upload # <<>>

\* C15: an /add whose upload holds uhps that the catalog has reports
\* exactly those under skipped_existing and passes none of them to the
\* insert, and no step of an import changes or removes a stored row,
\* whatever solution or ply the incoming record has.
C15_ExistingUhpIsSkippedAndKept ==
    /\ [](Checked =>
            last.skipped = Cardinality(UhpsOf(last.upload)
                                       \cap {p.uhp : p \in puzzles}))
    /\ [][\A t \in Tasks :
            /\ tasks'[t].pc = "add_count_before" /\ tasks[t].pc = "idle"
               => \A p \in puzzles : p.uhp \notin UhpsOf(tasks'[t].records)
            /\ tasks[t].pc = "add_insert" /\ tasks'[t].pc # "add_insert"
               => puzzles \subseteq puzzles']_vars

\* An upload was checked that holds a stored uhp with another solution and
\* ply, and an executemany of the import has since run beside the row.
C15_Witness ==
    /\ \E t \in Tasks : tasks[t].pc = "add_commit" /\ tasks[t].skipped = 1
                         /\ tasks[t].inserted = 1
    /\ \E p \in puzzles : p.uhp = StoredAgain.uhp
                           /\ p.solution # StoredAgain.solution
                           /\ p.ply # StoredAgain.ply

\* C16: no two rows of the catalog have the same uhp, or the same id.
C16_UhpIsUnique ==
    \A p, q \in puzzles : (p.uhp = q.uhp \/ p.id = q.id) => p = q

\* Two uploads with the same new uhp both passed the existing-uhp check;
\* one has inserted it and the executemany of the other found it stored.
C16_Witness ==
    \E t, o \in Tasks :
        /\ t # o
        /\ tasks[t].pc = "add_commit" /\ tasks[t].inserted = 0
        /\ tasks[o].pc \in {"add_commit", "add_count_after"}
        /\ tasks[o].inserted > 0
        /\ UhpsOf(tasks[t].records) \cap UhpsOf(tasks[o].records) # {}

\* C17: upsert_puzzles returns the number of rows that its own executemany
\* inserted, whatever other writers did between its two row counts.
C17_UpsertReturnsItsInserts ==
    last.op = "upsert_puzzles" /\ last.status = "imported"
    => last.imported = last.inserted

\* C18: an import whose insertion fails with a store error leaves none of
\* its records in the catalog: the catalog is as it was before the failing
\* executemany.
C18_FailedImportInsertsNothing ==
    [][last'.op = "upsert_puzzles" /\ last'.status = "failed"
       => puzzles' = puzzles]_vars

\* C19: a write of record_message_for_user, update_solved, update_like,
\* update_puzzle_title or record_message_mapping that has returned from its
\* commit is in the store: while its puzzle is in the catalog, running the
\* statement again would change nothing.
C19_ReportedWriteIsStored ==
    last.status = "ok" /\ ForeignKeyOk(last.puzzle)
    => Execute(Tables, last, clock) = Tables

\* The message has a mapping to the puzzle.
MappedTo(message, puzzle_id) ==
    \E p \in puzzle_for_message(ToText(message)) : p.id = puzzle_id

\* C20: a reaction resolved through the message mapping first gives the
\* reacting user a row for the puzzle with the message as its message_id,
\* keeping the solved_at and liked of a row the user had; and when the
\* solved reaction on a mapped message has been applied, the user's row has
\* solved_at set, the puzzle is not unseen for the user, and puzzle_totals
\* counts the user as attempted and solved.
C20_FallbackRowTakesTheUpdate ==
    [][\A t \in Tasks, u \in Users, p \in PuzzleIds :
        LET had == user_puzzle_state(user_puzzles, u, p)
            has == user_puzzle_state(user_puzzles', u, p)
            others == {up \in user_puzzles' : up.user_id # u}
        IN  tasks[t].user = u /\ tasks[t].puzzle = p =>
            /\ tasks[t].pc = "react_materialize" /\ tasks'[t].pc = "react_apply"
               => /\ Cardinality(has) = 1
                  /\ \A row \in has :
                        /\ row.message_id = ToText(tasks[t].message)
                        /\ \A old \in had : /\ row.solved_at = old.solved_at
                                             /\ row.liked = old.liked
            /\ /\ tasks[t].pc = "react_apply" /\ tasks'[t].pc = "idle"
               /\ tasks[t].emoji = "check" /\ tasks[t].added
               /\ MappedTo(tasks[t].message, p)
               => /\ Cardinality(has) = 1
                  /\ \A row \in has : row.solved_at # NULL
                  /\ \A q \in QueryUnseen(u, NULL, NULL)' : q.id # p
                  /\ puzzle_totals(user_puzzles', p)
                        = <<puzzle_totals(others, p)[1] + 1,
                            puzzle_totals(others, p)[2] + 1>>]_vars

\* A user other than the poster holds a solved row for the puzzle whose
\* message_id is the posted message: the row came from the fallback, and
\* the solved reaction has been applied to it.
C20_Witness ==
    /\ last.op = "update_solved" /\ last.solved
    /\ \E up \in user_puzzles, mp \in message_puzzles :
        /\ up.user_id = last.user /\ up.puzzle_id = last.puzzle
        /\ up.solved_at # NULL
        /\ mp.message_id = up.message_id /\ mp.puzzle_id = up.puzzle_id
        /\ mp.posted_by # up.user_id

\* C21: a message mapping, once it exists, keeps its puzzle, channel_id and
\* posted_by through every operation, record_message_mapping with its
\* message_id included, until the delete of its puzzle removes it.
C21_MappingStaysAsCreated ==
    [][\A mp \in message_puzzles :
          \/ mp \in message_puzzles'
          \/ /\ \A q \in puzzles' : q.id # mp.puzzle_id
             /\ \A r \in message_puzzles' : r.message_id # mp.message_id]_vars

\* The tables as last committed: those saved when the open transaction
\* began, or the tables themselves when none is open.
Committed == IF tx = NULL THEN Tables ELSE tx[1]

\* C22: an interaction row (U, P) of the committed store is there after
\* every step that leaves no transaction open, as long as puzzle P is in
\* the catalog: only the delete of P removes it.
C22_InteractionRowPersists ==
    [][tx' = NULL =>
        \A up \in Committed.user_puzzles :
            (\E q \in puzzles' : q.id = up.puzzle_id)
            => \E r \in user_puzzles' : /\ r.user_id = up.user_id
                                         /\ r.puzzle_id = up.puzzle_id]_vars

\* C23: the id of a puzzle never changes while the puzzle exists, and an
\* id once assigned never comes to denote another puzzle: a row keeps its
\* uhp under its id, every new row takes an id above every id assigned
\* before (puzzle_seq, the largest of them), and puzzle_seq never falls.
C23_IdDenotesOnePuzzle ==
    /\ [](\A p \in puzzles : p.id <= puzzle_seq)
    /\ [][/\ \A p \in puzzles, q \in puzzles' : p.id = q.id => p.uhp = q.uhp
          /\ \A q \in puzzles' :
                (\A p \in puzzles : p.id # q.id) => q.id > puzzle_seq
          /\ puzzle_seq' >= puzzle_seq]_vars

\* The solved status of every row.
SolvedStatus(table) ==
    {<<up.user_id, up.puzzle_id, up.solved_at # NULL>> : up \in table}

\* C24: update_solved(U, P, solved) leaves the row of (U, P) solved when
\* solved is true and with solved_at NULL when it is false; it creates no
\* row, changes no other field of the row and no other row; and applying
\* it again with the same argument, at any later time, leaves every solved
\* status as the first application left it.
C24_SetSolvedIsIdempotent ==
    [][last'.op = "update_solved" =>
        LET u == last'.user
            p == last'.puzzle
            before == RowsOf(user_puzzles, u, p)
            after == RowsOf(user_puzzles', u, p)
        IN  /\ RowsBeside(user_puzzles', u, p) = RowsBeside(user_puzzles, u, p)
            /\ Cardinality(after) = Cardinality(before)
            /\ \A row \in after :
                    /\ (row.solved_at # NULL) = last'.solved
                    /\ ~ last'.solved => row.solved_at = NULL
                    /\ \E old \in before : [row EXCEPT !.solved_at = NULL]
                                            = [old EXCEPT !.solved_at = NULL]
            /\ \A now \in clock'..MaxClock :
                    SolvedStatus(update_solved(user_puzzles', u, p,
                                               last'.solved, now))
                        = SolvedStatus(user_puzzles')]_vars

\* update_solved(U, P, true) has just run, later than the delivery, on a
\* row that holds a vote, beside a row of another user.
C24_Witness ==
    /\ last.op = "update_solved" /\ last.solved /\ clock > 0
    /\ \E up \in RowsOf(user_puzzles, last.user, last.puzzle) :
            up.solved_at = Some(clock) /\ up.attempted_at < clock
            /\ up.liked # NULL
    /\ \E up \in user_puzzles : up.user_id # last.user

\* The puzzles of `tables` without an interaction row of the user.
NewFor(tables, user_id) ==
    {p \in tables.puzzles :
        \A up \in tables.user_puzzles :
            ~ (up.user_id = user_id /\ up.puzzle_id = p.id)}

\* The summary `stats` is the one of the user in `tables`.
SummaryIn(tables, user_id, stats) ==
    LET rows == {up \in tables.user_puzzles : up.user_id = user_id}
        max0(n) == IF n > 0 THEN n ELSE 0
    IN  /\ stats.total = Cardinality(tables.puzzles)
        /\ stats.attempted = Cardinality(rows)
        /\ stats.solved = Cardinality({up \in rows : up.solved_at # NULL})
        /\ stats.liked = Cardinality({up \in rows : up.liked = Some(1)})
        /\ stats.disliked = Cardinality({up \in rows : up.liked = Some(-1)})
        /\ stats.unseen = max0(stats.total - stats.attempted)
        /\ stats.unsolved = max0(stats.attempted - stats.solved)
        /\ stats.attempted <= stats.total
        /\ stats.solved <= stats.attempted
        /\ stats.unseen = Cardinality(NewFor(tables, user_id))

\* C25: user_stats(U) returns the summary of U in the store: total,
\* attempted, solved, liked and disliked counted as the claim says, unseen
\* and unsolved the two clamped differences, attempted <= total and
\* solved <= attempted, and unseen the number of puzzles that select would
\* return as new for U. The store is taken as the call found it or as it is
\* when the call returns.
C25_SummaryMatchesTheStore ==
    /\ [](\A u \in Users : NewFor(Tables, u) = QueryUnseen(u, NULL, NULL))
    /\ [][\A t \in Tasks :
            tasks[t].pc = "stats_aggregate" /\ tasks'[t].pc = "idle"
            => \/ SummaryIn(tasks[t].began[1], tasks[t].user, last'.stats[1])
               \/ SummaryIn(Tables', tasks[t].user, last'.stats[1])]_vars

\* The line that last was parsed, and what the parser returned for it.
ParsedLine == last.text[1]
ParseResult == last.result
Returned == last.op = "parse_csv_line_detailed"

\* The semicolon fields of a line, and those after the variant and after a
\* header InProgress;White.. or InProgress;Black..
FieldsOf(line) == SplitFields(Strip(line))
HeaderFields(fields) ==
    IF /\ Len(fields) >= 3
       /\ Len(Strip(fields[2])) = 1
       /\ Lower(Strip(fields[2])[1]) = "inprogress"
       /\ Strip(fields[3]) # <<>>
       /\ Lower(Strip(fields[3])[1]) \in {"white[3]", "black"}
    THEN 2 ELSE 0
MoveFields(line) ==
    LET fields == FieldsOf(line)
    IN  SubSeq(fields, 2 + HeaderFields(fields), Len(fields))

\* A token made of digit characters only, and one that is a decimal number.
DigitToken(tok) ==
    /\ tok # <<>>
    /\ \A i \in 1..Len(tok) :
            tok[i] \in {"0", "1", "3", Superscript, TooLong}
DecimalToken(tok) ==
    /\ tok # <<>>
    /\ \A i \in 1..Len(tok) : tok[i] \in {"0", "1", "3", TooLong}

\* The tokens of every move field, in order, each with the number of its
\* field.
RECURSIVE PlacedTokens(_, _)
PlacedTokens(fields, k) ==
    IF k > Len(fields) THEN <<>>
    ELSE LET tokens == SplitTokens(fields[k])
         IN  [j \in 1..Len(tokens) |-> [field |-> k, at |-> j, tok |-> tokens[j]]]
                \o PlacedTokens(fields, k + 1)

\* The first token of digits in the move fields, as a one-element sequence,
\* or the empty sequence.
PlyToken(line) ==
    LET placed == PlacedTokens(MoveFields(line), 1)
        hits == {n \in 1..Len(placed) : DigitToken(placed[n].tok)}
    IN  IF hits = {} THEN <<>>
        ELSE <<placed[CHOOSE n \in hits : \A m \in hits : n <= m]>>

\* Nothing but whitespace and semicolons follows the ply token.
NothingFollows(line) ==
    LET fields == MoveFields(line)
        ply == PlyToken(line)[1]
    IN  /\ Len(SplitTokens(fields[ply.field])) = ply.at
        /\ \A k \in (ply.field + 1)..Len(fields) : Strip(fields[k]) = <<>>

PlyFound(line) == PlyToken(line) # <<>> /\ DecimalToken(PlyToken(line)[1].tok)

OneOfRecordAndReason ==
    \/ ParseResult.record # NULL /\ ParseResult.reason = NULL
    \/ /\ ParseResult.record = NULL
       /\ ParseResult.reason \in {Some("moves"), Some("ply"), Some("solution")}

\* C29 as stated: the parser returns a record and no reason, or no record
\* and one of the reasons moves, ply, solution; moves for a line of fewer
\* than 2 semicolon fields, ply for a line of at least 2 fields with no
\* numeric token in any move segment, solution when a ply is found and the
\* solution is empty.
C29_ReasonsAsStated ==
    Returned =>
        /\ OneOfRecordAndReason
        /\ Len(FieldsOf(ParsedLine)) < 2 => ParseResult.reason = Some("moves")
        /\ Len(FieldsOf(ParsedLine)) >= 2 /\ PlyToken(ParsedLine) = <<>> =>
                ParseResult.reason = Some("ply")
        /\ PlyFound(ParsedLine) /\ NothingFollows(ParsedLine) =>
                ParseResult.reason = Some("solution")

\* C29, amended: the parser returns a record and no reason, or no record
\* and one of the reasons moves, ply, solution. The reason is moves exactly
\* when the line has fewer than 2 semicolon fields or has no field after its
\* header; ply exactly when there is such a field and either no token of
\* digits is in any of them or the first one is no decimal number; solution
\* exactly when a ply is found and nothing follows it.
C29_ParserClassifiesFailures ==
    Returned =>
        LET moves == MoveFields(ParsedLine) IN
        /\ OneOfRecordAndReason
        /\ ParseResult.reason = Some("moves") <=> moves = <<>>
        /\ ParseResult.reason = Some("ply") <=>
                moves # <<>> /\ ~ PlyFound(ParsedLine)
        /\ ParseResult.reason = Some("solution") <=>
                PlyFound(ParsedLine) /\ NothingFollows(ParsedLine)

\* A line of three fields that is a variant and a header was parsed.
C29_Witness ==
    /\ Returned
    /\ Len(FieldsOf(ParsedLine)) = 3
    /\ HeaderFields(FieldsOf(ParsedLine)) = 2
    /\ ParseResult.reason = Some("moves")

\* The pieces of a line that parses, around its ply token: the move text
\* before it, the text after it in its field, and the fields after that
\* one, each without the whitespace around it.
MovesBefore(line) ==
    LET fields == MoveFields(line)
        ply == PlyToken(line)[1]
        tokens == SplitTokens(fields[ply.field])
    IN  [k \in 1..(ply.field - 1) |-> Text(Strip(fields[k]))]
            \o <<Join(TextOfEach(SubSeq(tokens, 1, ply.at - 1)), " ")>>
TextAfter(line) ==
    LET ply == PlyToken(line)[1]
        tokens == SplitTokens(MoveFields(line)[ply.field])
    IN  Join(TextOfEach(SubSeq(tokens, ply.at + 1, Len(tokens))), " ")
LaterFields(line) ==
    LET fields == MoveFields(line)
        ply == PlyToken(line)[1]
    IN  [k \in 1..(Len(fields) - ply.field) |->
            Text(Strip(fields[ply.field + k]))]
VariantOf(line) == Text(Strip(FieldsOf(line)[1]))

\* The record returned for the line of the trainer file.
TrainerLineParses ==
    Returned /\ ParsedLine = TrainerLine =>
        /\ ParseResult.record # NULL
        /\ ParseResult.record[1].uhp = "Base;wS1;bS1;wQ"
        /\ ParseResult.record[1].ply = Some(3)
        /\ ParseResult.record[1].solution = "wQ-bS1"

\* C30 as stated: for a line that parses, the ply is the first numeric
\* token of the move segments, the uhp is the variant joined by ";" with the
\* non-empty move text before that token, and the solution is the text
\* after the token in its segment plus all later segments, joined by ";".
C30_RecordAsStated ==
    /\ TrainerLineParses
    /\ Returned /\ ParseResult.record # NULL =>
        LET record == ParseResult.record[1]
            after == TextAfter(ParsedLine)
        IN  /\ PlyFound(ParsedLine)
            /\ record.ply = Some(ToInt(PlyToken(ParsedLine)[1].tok))
            /\ record.uhp = Join(<<VariantOf(ParsedLine)>>
                                    \o NonEmpty(MovesBefore(ParsedLine)), ";")
            /\ record.solution =
                    Join((IF after = "" THEN <<>> ELSE <<after>>)
                            \o LaterFields(ParsedLine), ";")
            /\ record.solution # ""

\* C30, amended: for a line that parses, the ply is the first numeric
\* token of the move segments, the uhp is the variant joined by ";" with the
\* non-empty move text before that token, and the solution is the text
\* after the token in its segment and the later segments that are not
\* empty, joined by ";".
C30_RecordFromTheLine ==
    /\ TrainerLineParses
    /\ Returned /\ ParseResult.record # NULL =>
        LET record == ParseResult.record[1]
        IN  /\ PlyFound(ParsedLine)
            /\ record.ply = Some(ToInt(PlyToken(ParsedLine)[1].tok))
            /\ record.uhp = Join(<<VariantOf(ParsedLine)>>
                                    \o NonEmpty(MovesBefore(ParsedLine)), ";")
            /\ record.solution =
                    Join(NonEmpty(<<TextAfter(ParsedLine)>>
                                    \o LaterFields(ParsedLine)), ";")
            /\ record.solution # ""

\* A line with a header parsed whose ply token has an empty segment and
\* then a segment with text after it.
C30_Witness ==
    /\ Returned
    /\ ParseResult.record # NULL
    /\ HeaderFields(FieldsOf(ParsedLine)) = 2
    /\ LET later == LaterFields(ParsedLine)
       IN  Len(later) >= 2 /\ later[1] = "" /\ later[2] # ""

\* The lines of an upload by their numbers: line n gives a record, and it
\* is the first line of the upload that gives its uhp.
RecordAt(all_lines, n) == parse_csv_line_detailed(all_lines[n]).record
GivesRecord(all_lines, n) ==
    Strip(all_lines[n]) # <<>> /\ RecordAt(all_lines, n) # NULL
FirstOfItsUhp(all_lines, n) ==
    /\ GivesRecord(all_lines, n)
    /\ \A m \in 1..(n - 1) :
            GivesRecord(all_lines, m) =>
                RecordAt(all_lines, m)[1].uhp # RecordAt(all_lines, n)[1].uhp
WithinCap(all_lines) ==
    Cardinality({n \in 1..Len(all_lines) : Strip(all_lines[n]) # <<>>})
        <= LineCap
Elements(seq) == {seq[i] : i \in 1..Len(seq)}

\* C26: in an upload within the line cap, of the lines that parse to one
\* uhp only the record of the first is a candidate for insertion, a row
\* that the upload inserts has the solution and ply of that record, and the
\* numbers of the later lines are the duplicate lines of the upload.
C26_FirstLineOfAUhpWins ==
    /\ [](\A t \in Tasks :
            tasks[t].pc \in AddPcs =>
                \A r \in Elements(tasks[t].records) :
                    \E n \in 1..Len(tasks[t].text) :
                        /\ FirstOfItsUhp(tasks[t].text, n)
                        /\ RecordAt(tasks[t].text, n)[1] = r)
    /\ [](last.op \in {"existing_uhp", "upsert_puzzles"} =>
            Elements(last.duplicate_lines) =
                {n \in 1..Len(last.text) :
                    GivesRecord(last.text, n) /\ ~ FirstOfItsUhp(last.text, n)})
    /\ [][\A t \in Tasks :
            tasks[t].pc = "add_insert" /\ tasks'[t].pc # "add_insert" =>
                \A row \in puzzles' \ puzzles :
                    \E n \in 1..Len(tasks[t].text) :
                        /\ FirstOfItsUhp(tasks[t].text, n)
                        /\ RecordAt(tasks[t].text, n)[1].uhp = row.uhp
                        /\ RecordAt(tasks[t].text, n)[1].solution = row.solution
                        /\ RecordAt(tasks[t].text, n)[1].ply = row.ply]_vars

\* An upload whose first and third line give one uhp has ended: the row of
\* that uhp is as the first line has it and line 3 is a duplicate line.
C26_Witness ==
    /\ last.op = "upsert_puzzles"
    /\ last.status = "imported"
    /\ last.text = <<SameUhpLine, BlankLine, FirstLine>>
    /\ last.imported = 1
    /\ last.duplicate_lines = <<3>>
    /\ \E p \in puzzles : /\ p.uhp = "Base;wA1"
                          /\ p.solution = "bQ-wS1"
                          /\ p.ply = Some(0)

\* The failures of an upload as its lines have them: the number of every
\* non-blank line that gives no record, with the parser's reason.
FailuresOf(all_lines) ==
    {[line_num |-> n,
      reason |-> parse_csv_line_detailed(all_lines[n]).reason[1]] :
        n \in {m \in 1..Len(all_lines) :
                    Strip(all_lines[m]) # <<>> /\ ~ GivesRecord(all_lines, m)}}

\* /add has ended for an upload within the cap.
Imported == last.op \in {"add_command", "upsert_puzzles"}
                /\ last.text # <<>> /\ WithinCap(last.text)

\* C27: when /add ends for an upload within the line cap, every line that
\* failed to parse is reported with its number and reason, and the uhp of
\* every line that parses is in the committed catalog: the first line of a
\* new uhp was inserted and committed, wherever the failing lines are.
C27_GoodLinesCommit ==
    Imported =>
        /\ Elements(last.failures) = FailuresOf(last.text)
        /\ \A n \in 1..Len(last.text) :
                FirstOfItsUhp(last.text, n) =>
                    \E p \in Committed.puzzles :
                        p.uhp = RecordAt(last.text, n)[1].uhp

\* A title as given, without the blanks at its ends: the pieces from the
\* first to the last that is no blank.
Inner(pieces) ==
    LET solid == {i \in 1..Len(pieces) : pieces[i] \notin Whitespace}
    IN  IF solid = {} THEN <<>>
        ELSE SubSeq(pieces,
                    CHOOSE i \in solid : \A k \in solid : i <= k,
                    CHOOSE i \in solid : \A k \in solid : k <= i)
Asked(title) == IF title = NULL THEN <<>> ELSE Inner(title[1])

\* The strings that are not empty, have no blank at either end and are at
\* most 60 characters long.
WellFormedTitles ==
    {Text(pieces) : pieces \in
        {p \in Titles : /\ p # <<>>
                        /\ p[1] \notin Whitespace
                        /\ p[Len(p)] \notin Whitespace
                        /\ Len(Text(p)) <= 60}}

\* A step in which a /title request for puzzle_id with this title is
\* heard: it is answered at once, or its UPDATE runs.
TitleHeard(puzzle_id, title) ==
    \/ /\ last'.op = "update_puzzle_title"
       /\ last'.status \in {"too long", "refused"}
       /\ last'.puzzle = puzzle_id
       /\ last'.text = title
    \/ \E t \in Tasks : /\ tasks[t].pc = "idle"
                        /\ tasks'[t].pc = "call_commit"
                        /\ tasks'[t].call.op = "update_puzzle_title"
                        /\ tasks'[t].call.puzzle = puzzle_id
                        /\ tasks'[t].call.text = title

\* C28: every stored title is null or a non-empty string without blanks at
\* its ends of at most 60 characters. A /title request with a title longer
\* than 60 characters after trimming is rejected and no title changes; one
\* with a title that is empty after trimming, or with none, stores null;
\* one for an id that is not in the catalog reports not-found and changes
\* nothing.
C28_TitlesAreTrimmedAndShort ==
    /\ [](\A p \in puzzles : p.title = NULL \/ p.title[1] \in WellFormedTitles)
    /\ [][\A id \in AllIds, title \in Nullable(Titles) :
            TitleHeard(id, title) =>
                /\ Len(Text(Asked(title))) > 60 =>
                        /\ last'.status = "too long"
                        /\ puzzles' = puzzles
                /\ Len(Text(Asked(title))) <= 60
                    /\ (\A p \in puzzles : p.id # id) =>
                        /\ last'.status = "refused"
                        /\ Tables' = Tables
                /\ Asked(title) = <<>> /\ (\E p \in puzzles : p.id = id) =>
                        \E p \in puzzles' : p.id = id /\ p.title = NULL]_vars

\* A title of 60 characters between blanks was stored for a puzzle, a
\* longer one was then rejected for it, and the stored one is still there.
C28_Witness ==
    /\ last.op = "update_puzzle_title"
    /\ last.status = "too long"
    /\ last.text = Some(<<LongWord, "a">>)
    /\ \E p \in puzzles : p.id = last.puzzle /\ p.title = Some(LongWord)

\* The side named by the header of a line that has one.
HeaderSaysWhite(line) == Lower(Strip(FieldsOf(line)[3])[1]) = "white[3]"

\* The moves of a line that parses, as they stand in its uhp after the
\* variant.
MovesInUhp(line) == NonEmpty(MovesBefore(line))

\* C31: for a parsed line with a header InProgress;White.. or
\* InProgress;Black.. in any case, to_move is true exactly when the side
\* token starts with white; for a parsed line without one, to_move is true
\* exactly when the number of move segments before the ply marker, which is
\* the number of moves of the uhp after the variant, is even.
C31_ToMoveFromHeaderOrParity ==
    Returned /\ ParseResult.record # NULL =>
        LET record == ParseResult.record[1]
        IN  IF HeaderFields(FieldsOf(ParsedLine)) = 2
            THEN record.to_move <=> HeaderSaysWhite(ParsedLine)
            ELSE /\ record.uhp = Join(<<VariantOf(ParsedLine)>>
                                        \o MovesInUhp(ParsedLine), ";")
                 /\ record.to_move <=> Len(MovesInUhp(ParsedLine)) % 2 = 0

\* The user's previous successful post was made less than PostCooldown
\* seconds ago.
PostedLately(user_id) ==
    /\ post_cooldowns[user_id] # NULL
    /\ Monotonic - post_cooldowns[user_id][1] < PostCooldown

\* The steps of a /post handler t: it begins and goes on to send, it ends
\* with the mapping of its message recorded, it ends without one.
PostBegins(t) == tasks[t].pc = "idle" /\ tasks'[t].pc = "post_send"
PostSucceeds(t) ==
    /\ tasks[t].pc = "post_map" /\ tasks'[t].pc = "idle"
    /\ message_puzzles' # message_puzzles
PostEndsInFailure(t) ==
    /\ tasks[t].pc \in {"post_send", "post_record", "post_map"}
    /\ tasks'[t].pc = "idle"
    /\ message_puzzles' = message_puzzles

\* C32: a user has at most one successful post in any 60 seconds, however
\* the user's /post handlers interleave: no post succeeds and none goes on
\* to send less than 60 seconds after the user's previous successful post, a
\* rejected request sends no message and records nothing, and a post that
\* fails starts no cooldown.
C32_OnePostAMinute ==
    [][/\ \A t \in Tasks :
            /\ PostSucceeds(t) => ~ PostedLately(tasks[t].user)
            /\ PostBegins(t) => ~ PostedLately(tasks'[t].user)
            /\ PostEndsInFailure(t) =>
                    post_cooldowns'[tasks[t].user] = post_cooldowns[tasks[t].user]
       /\ tasks' = tasks =>
            UNCHANGED <<next_message, message_puzzles, user_puzzles>>]_vars

\* The entry of a user in the rate-limit map is more than CooldownMaxAge
\* seconds old.
Stale(user_id) ==
    /\ post_cooldowns[user_id] # NULL
    /\ Monotonic - post_cooldowns[user_id][1] > CooldownMaxAge

\* The rate-limit map after the step is the map before it without its
\* stale entries.
Pruned ==
    \A u \in Users :
        post_cooldowns'[u] = IF Stale(u) THEN NULL ELSE post_cooldowns[u]

\* C37: pruning removes exactly the entries that are more than 3600 seconds
\* old: a /post that goes on to send has pruned the map, which then holds no
\* entry older than 3600 seconds; outside a successful post the map changes
\* by pruning only; and the entry of a user inside the 60-second cooldown
\* is removed by no step.
C37_PruningRemovesTheStaleOnly ==
    [][/\ (\E t \in Tasks : PostBegins(t)) =>
            /\ Pruned
            /\ \A u \in Users :
                    post_cooldowns'[u] # NULL =>
                        Monotonic' - post_cooldowns'[u][1] <= CooldownMaxAge
       /\ (post_cooldowns' # post_cooldowns
            /\ \A t \in Tasks : ~ PostSucceeds(t)) => Pruned
       /\ \A u \in Users : PostedLately(u) => post_cooldowns'[u] # NULL]_vars

\* A /post has begun at a time when the entry of a user who had posted was
\* older than 3600 seconds and the entry of another was exactly 3600
\* seconds old: the first is gone and the second is kept.
C37_Witness ==
    /\ \E t \in Tasks : tasks[t].pc = "post_send"
    /\ \E u \in Users, v \in Users :
        /\ post_cooldowns[u] = NULL
        /\ \E mp \in message_puzzles : mp.posted_by = u
        /\ post_cooldowns[v] # NULL
        /\ Monotonic - post_cooldowns[v][1] = CooldownMaxAge

\* The message_id of the row of (user_id, puzzle_id), as a set.
MessageOf(user_id, puzzle_id) ==
    {up.message_id : up \in RowsOf(user_puzzles, user_id, puzzle_id)}

\* C34: the per-user lookup knows the latest delivery only. When a delivery
\* of P to U in message M is recorded, a reaction by U on M resolves to P
\* and one on the message of the delivery before it resolves to no puzzle,
\* by the user's rows or by a mapping; a reaction handler resolves by the
\* user's rows exactly to the puzzle whose row holds the message, and a
\* handler whose message resolves to no puzzle changes no row and ends.
C34_LatestDeliveryResolves ==
    [][/\ \A u \in Users, p \in PuzzleIds, m \in MessageIds :
            last' = RecordCall(u, p, m) =>
                /\ {q.id : q \in lookup_puzzle_by_message(u, m)'} = {p}
                /\ \A earlier \in MessageIds :
                        earlier # m /\ MessageOf(u, p) = {ToText(earlier)} =>
                            /\ lookup_puzzle_by_message(u, earlier)' = {}
                            /\ puzzle_for_message(ToText(earlier))' = {}
       /\ \A t \in Tasks, u \in Users, m \in MessageIds :
            /\ tasks[t].pc = "idle"
            /\ tasks'[t].pc \in {"react_apply", "react_fallback"}
            /\ tasks'[t].user = u /\ tasks'[t].message = m
            => /\ user_puzzles' = user_puzzles
               /\ IF lookup_puzzle_by_message(u, m) = {}
                  THEN tasks'[t].pc = "react_fallback"
                  ELSE /\ tasks'[t].pc = "react_apply"
                       /\ MessageOf(u, tasks'[t].puzzle) = {ToText(m)}
       /\ \A t \in Tasks :
            /\ tasks[t].pc = "react_fallback"
            /\ tasks'[t] # tasks[t]
            /\ puzzle_for_message(ToText(tasks[t].message)) = {}
            => user_puzzles' = user_puzzles /\ tasks'[t].pc = "idle"]_vars

\* A user to whom a puzzle was delivered in message 1 and again in message
\* 2 has reacted on message 1, and the handler has found no row for it.
C34_Witness ==
    /\ next_message = 3
    /\ \E u \in Users, p \in PuzzleIds :
        /\ {[user_id |-> up.user_id, puzzle_id |-> up.puzzle_id,
             message_id |-> up.message_id] : up \in user_puzzles}
            = {[user_id |-> u, puzzle_id |-> p, message_id |-> ToText(2)]}
        /\ \E t \in Tasks :
            /\ tasks[t].pc = "react_fallback"
            /\ tasks[t].user = u
            /\ tasks[t].message = 1

\* The step of a /post handler t that writes the row of the posting user.
PostWritesRow(t) == tasks[t].pc = "post_record" /\ tasks'[t].pc = "post_map"

\* C36: a successful post of P by U records an Interaction row (U, P) whose
\* message_id is the posted message, created with solved_at and liked NULL
\* or refreshed with both kept, while the message has no mapping yet, and
\* then the MessageMapping of the message to P; after it P is not unseen
\* for U in select and U is one of the attempts of puzzle_totals(P).
C36_PostRecordsAnAttempt ==
    [][\A t \in Tasks, u \in Users, p \in PuzzleIds, m \in MessageIds :
        tasks[t].user = u /\ tasks[t].puzzle = p /\ tasks[t].message = m =>
            /\ PostWritesRow(t) =>
                /\ \A mp \in message_puzzles : mp.message_id # ToText(m)
                /\ \E up \in user_puzzles' :
                    /\ RowsOf(user_puzzles', u, p) = {up}
                    /\ up.message_id = ToText(m)
                    /\ IF HasRow(u, p)
                       THEN \E old \in RowsOf(user_puzzles, u, p) :
                                /\ up.solved_at = old.solved_at
                                /\ up.liked = old.liked
                       ELSE up.solved_at = NULL /\ up.liked = NULL
                /\ RowsBeside(user_puzzles', u, p) = RowsBeside(user_puzzles, u, p)
            /\ PostSucceeds(t) =>
                /\ \E mp \in message_puzzles' :
                    /\ mp.message_id = ToText(m)
                    /\ mp.puzzle_id = p
                    /\ mp.posted_by = u
                /\ HasRow(u, p)'
                /\ \A q \in QueryUnseen(u, NULL, NULL)' : q.id # p
                /\ puzzle_totals(user_puzzles', p)[1] =
                    puzzle_totals(RowsBeside(user_puzzles', u, p), p)[1] + 1]_vars

\* A post of a puzzle that its poster had solved has succeeded: the row
\* holds the posted message and still the solve, and the mapping is made.
C36_Witness ==
    /\ last.op = "record_message_mapping"
    /\ \E up \in user_puzzles, mp \in message_puzzles :
        /\ mp.message_id = ToText(last.message)
        /\ mp.puzzle_id = up.puzzle_id
        /\ mp.posted_by = up.user_id
        /\ up.message_id = mp.message_id
        /\ up.solved_at # NULL
        /\ last.message = 2

\* No handler is in flight.
Settled == \A t \in Tasks : tasks[t].pc = "idle"

\* C33: once the handlers of a user's like and dislike reaction changes on
\* a puzzle message have completed, however they interleaved, the stored
\* liked value is +1 if only the like reaction remains on the message, -1
\* if only the dislike remains and NULL if neither remains; a user with
\* only the like is counted in the likes and not in the dislikes.
C33_LikedMatchesReactions ==
    Settled =>
        \A up \in user_puzzles, m \in MessageIds :
            up.message_id = ToText(m) =>
                LET has_up == UserHasReaction(up.user_id, m, "up")
                    has_down == UserHasReaction(up.user_id, m, "down")
                IN  /\ has_up /\ ~ has_down =>
                        /\ up.liked = Some(1)
                        /\ vote_totals({up}, up.puzzle_id) = <<1, 0>>
                    /\ has_down /\ ~ has_up => up.liked = Some(-1)
                    /\ ~ has_up /\ ~ has_down => up.liked = NULL

\* The three tables are left as they are.
TablesUnchanged == UNCHANGED <<puzzles, user_puzzles, message_puzzles>>

\* C35: a reaction event of the bot's own user leaves the Puzzle,
\* Interaction and MessageMapping tables unchanged and starts nothing; the
\* handler of an event whose message resolves to no puzzle, by the user's
\* rows and by the mappings, leaves them unchanged and ends; and no
\* Interaction row is ever a row of the bot.
C35_OwnReactionsChangeNothing ==
    /\ [](\A up \in user_puzzles : up.user_id # BotUser)
    /\ [][/\ last'.op = "on_raw_reaction" =>
                TablesUnchanged /\ tasks' = tasks
          /\ \A t \in Tasks :
                /\ tasks[t].pc = "idle"
                  /\ tasks'[t].pc \in {"react_apply", "react_fallback"}
                  => TablesUnchanged
                /\ tasks[t].pc = "react_fallback"
                  /\ tasks'[t] # tasks[t]
                  /\ puzzle_for_message(ToText(tasks[t].message)) = {}
                  => TablesUnchanged /\ tasks'[t].pc = "idle"]_vars

\* The event of a reaction of the bot on a posted message that has its
\* mapping was handled.
C35_Witness ==
    /\ last.op = "on_raw_reaction"
    /\ last.user = BotUser
    /\ \E mp \in message_puzzles : mp.message_id = ToText(last.message)
====
